---- MODULE Spec2Model ----
(***************************************************************************)
(* mirror-minder: the mirror health engine.                                *)
(*                                                                         *)
(* The model follows src/src/mirror-minder.py (the most complete revision  *)
(* of the monitor), src/repos.py (topology, scheduling, cache) and         *)
(* src/src/issues.py (the issue tracker client).                           *)
(*                                                                         *)
(* Time is an integer clock and the program's durations are scaled to it.  *)
(* The order of the judge's thresholds is the program's: FRESHNESS_TARGET  *)
(* (1) < AUTHORITY_UPDATE_GRACE_PERIOD (2) < MONITOR_PERIOD_S (3) <        *)
(* STALENESS_LIMIT (4) = "3 days" (4), and INITIAL_CHECK_DELAY (1) <       *)
(* CHECK_INTERVAL (2).  CHECK_INTERVAL is stretched against the rest, so   *)
(* CONSECUTIVE_FAIL_LIMIT = round(3 days / CHECK_INTERVAL) is 2 (the       *)
(* program: 144).  The jitter fraction is the program's 1/20; on the       *)
(* integer clock a jitter in [-delay/20, delay/20) is its floor, -1 or 0.  *)
(* Every comparison of the code is kept as written, so the behaviour at    *)
(* the boundaries (>, >=, <) is that of the code.                          *)
(*                                                                         *)
(* The specifications share the actions.  Spec is the running process      *)
(* (epochs, ticks, checks, judgments, kills); EpochSpec is the process     *)
(* that nobody kills, over both list orders of the groups, and LogOnlySpec *)
(* the same started with --log-only.  The others apply one part of the     *)
(* process to every state it may find: JudgeSpec one judgment to every     *)
(* monitoring state of a group, CheckSpec one check to every response of a *)
(* server, LoadSpec one load to every state of the cache file,             *)
(* FirstPassSpec the load and first pass of an epoch to every cache of an  *)
(* earlier epoch, TickSpec one tick to every set of due mirrors,           *)
(* AuthoritySpec one judgment to every state of the authority's own        *)
(* group.  An exception that nothing catches ends the process              *)
(* (pc = "crashed").                                                       *)
(*                                                                         *)
(* The first pass of an epoch's while loop comes 0.1 s after the load,     *)
(* long before the bootstrap delay is over: it is a pass at the clock      *)
(* value of the load.                                                      *)
(***************************************************************************)
EXTENDS Integers, Sequences, FiniteSets, TLC

VARIABLES
  now,            \* the wall clock, datetime.now(UTC)
  pc,             \* where the process is: "load", "loop", "check", "judge",
                  \* "halted" (assertion), "crashed" (uncaught exception)
  log_only,       \* LOG_ONLY, set from --log-only
  auto_close,     \* AUTO_CLOSE as configured
  registry,       \* the definition-file tree of the termux-tools repo
  mirror_groups,  \* the topology of this epoch: list[MirrorGroup]
  mirrors,        \* repo_url -> monitoring state of the Mirror object
  cache,          \* the persisted snapshot (the cache file)
  epoch_start,    \* start = time.monotonic() of this epoch
  monitor_period, \* monitor_period_s of this epoch
  tick_now,       \* now, sampled once at the start of the tick; NONE
                  \* before the first tick of the epoch
  gi,             \* index of the group the tick is at
  mi,             \* index of the mirror in that group the tick is at
  restarts,       \* how often the process was killed and started again
  issues,         \* the tracker: title -> number of open issues with it
  lastJ,          \* what the last step's judge_mirror_group call did
  lastC,          \* what the last step's check_and_update_mirror call did
  stale_since,    \* repo_url -> when its unbroken run of stale verdicts began
  fail_run        \* repo_url -> how many of its checks in a row have failed

vars == <<now, pc, log_only, auto_close, registry, mirror_groups, mirrors, cache,
          epoch_start, monitor_period, tick_now, gi, mi, restarts,
          issues, lastJ, lastC, stale_since, fail_run>>

\* ------------------------------------------------------------------------
\* Values
\* ------------------------------------------------------------------------

\* Python's None, for the Optional[datetime] fields.
NONE == -1

\* datetime.fromtimestamp(0, UTC)
EPOCH == 0

\* Bounds of the model.
Horizon == 4
MaxRestarts == 1

\* repos.py
INITIAL_CHECK_DELAY == 1
CHECK_INTERVAL == 2
\* CHECK_JITTER_FRACTION is 1 / CHECK_JITTER_DIVISOR
CHECK_JITTER_DIVISOR == 20

\* mirror-minder.py
MONITOR_PERIOD_S == 3
FRESHNESS_TARGET == 1
STALENESS_LIMIT == 4
AUTHORITY_UPDATE_GRACE_PERIOD == 2
THREE_DAYS == 4
AUTO_CLOSE_ENABLED == TRUE
AUTO_CLOSE == FALSE
LOG_ONLY == FALSE

\* Python's round() of the quotient a / b of two positive integers: to the
\* nearest integer, ties to the even one.
Round(a, b) ==
  LET q == a \div b
      r == a % b
  IN  IF 2 * r < b THEN q
      ELSE IF 2 * r > b THEN q + 1
      ELSE IF q % 2 = 0 THEN q ELSE q + 1

CONSECUTIVE_FAIL_LIMIT == Round(THREE_DAYS, CHECK_INTERVAL)

\* random.random() * 2, a number in [0, 2), is modelled by the samples 0 and 1.
RandomSamples == {0, 1}

\* The clock reading at process start and the clock's cap.
StartTime == STALENESS_LIMIT + CHECK_INTERVAL + 1
MaxTime == StartTime + Horizon

\* ------------------------------------------------------------------------
\* repos.py: Mirror, MirrorGroup, the scheduler's clock, the cache
\* ------------------------------------------------------------------------

\* A repo_url is modelled as <<origin, path>>.
AUTHORITY_ORIGIN == "https://packages.termux.dev"
URL_AUTH_MAIN == <<"https://packages.termux.dev", "/apt/termux-main">>
URL_MIRROR_MAIN == <<"https://mirror.example", "/termux-main">>
URL_MIRROR_ROOT == <<"https://mirror.example", "/termux-root">>
URL_AUTH_COPY == <<"https://packages.termux.dev", "/copy/termux-main">>
URL_AUTH_ROOT == <<"https://packages.termux.dev", "/apt/termux-root">>

\* Mirror.is_authoritative: repo_url.startswith("https://packages.termux.dev")
is_authoritative(repo_url) == repo_url[1] = AUTHORITY_ORIGIN

\* Definition-file trees: the authority's domain and one mirror domain
\* vending main alone (TopoMain), or main and root (TopoBoth; nobody is the
\* authority of root).
GroupAuthority ==
  [domain |-> "packages.termux.dev",
   mirrors |-> << [repo_url |-> URL_AUTH_MAIN, repo_name |-> "main"] >>]
GroupMirrorBoth ==
  [domain |-> "mirror.example",
   mirrors |-> << [repo_url |-> URL_MIRROR_MAIN, repo_name |-> "main"],
                  [repo_url |-> URL_MIRROR_ROOT, repo_name |-> "root"] >>]
GroupMirrorMain ==
  [domain |-> "mirror.example",
   mirrors |-> << [repo_url |-> URL_MIRROR_MAIN, repo_name |-> "main"] >>]
\* The mirror domain's file names a url of the authority's origin as its
\* main repo: a second authoritative Mirror of main.
GroupMirrorCopy ==
  [domain |-> "mirror.example",
   mirrors |-> << [repo_url |-> URL_AUTH_COPY, repo_name |-> "main"] >>]
\* The mirror domain does not carry root: its file names the authority's
\* root repo beside its own main repo.
GroupMirrorShared ==
  [domain |-> "mirror.example",
   mirrors |-> << [repo_url |-> URL_MIRROR_MAIN, repo_name |-> "main"],
                  [repo_url |-> URL_AUTH_ROOT, repo_name |-> "root"] >>]
\* The authority's own file lists its main and its root repo.
GroupAuthorityBoth ==
  [domain |-> "packages.termux.dev",
   mirrors |-> << [repo_url |-> URL_AUTH_MAIN, repo_name |-> "main"],
                  [repo_url |-> URL_AUTH_ROOT, repo_name |-> "root"] >>]
TopoBoth == <<GroupAuthority, GroupMirrorBoth>>
TopoMain == <<GroupAuthority, GroupMirrorMain>>
TopoTwoAuthorities == <<GroupAuthority, GroupMirrorCopy>>
Topologies == {TopoMain, TopoTwoAuthorities}
\* os.listdir yields the definition files in arbitrary order: the mirror
\* domain's group may come before the authority's.
TopoMirrorFirst == <<GroupMirrorMain, GroupAuthority>>
TopoShared == <<GroupMirrorShared, GroupAuthority>>
EpochTopologies == {TopoMain, TopoMirrorFirst, TopoShared}
OrderedTopologies == {TopoMain, TopoMirrorFirst}
JudgedTopologies == {TopoMain, TopoBoth}
TopoAuthorityBoth == <<GroupAuthorityBoth, GroupMirrorMain>>
AuthorityTopologies == {TopoMain, TopoAuthorityBoth}

AllUrls ==
  {URL_AUTH_MAIN, URL_MIRROR_MAIN, URL_MIRROR_ROOT, URL_AUTH_COPY, URL_AUTH_ROOT}

RECURSIVE Flatten(_)
\* chain.from_iterable([g.mirrors for g in groups])
Flatten(groups) ==
  IF groups = <<>> THEN <<>>
  ELSE Head(groups).mirrors \o Flatten(Tail(groups))

UrlsOf(groups) == {Flatten(groups)[i].repo_url : i \in 1..Len(Flatten(groups))}

\* next_check_time: now + delay + jitter, jitter = (random*2 - 1) * (delay *
\* CHECK_JITTER_FRACTION).  delay = NONE stands for the omitted argument.
next_check_time(delay, random2, t) ==
  LET d == IF delay = NONE THEN CHECK_INTERVAL ELSE delay
      jitter == ((random2 - 1) * d) \div CHECK_JITTER_DIVISOR
  IN  t + d + jitter

\* The Mirror that __load_mirrors_from_file constructs.
NewMirror(entry, random2, t) ==
  [repo_url |-> entry.repo_url,
   repo_name |-> entry.repo_name,
   next_check |-> next_check_time(INITIAL_CHECK_DELAY, random2, t),
   consecutive_check_failures |-> 0,
   last_check |-> NONE,
   last_successful_check |-> NONE,
   last_sync_time |-> NONE]

\* _load_mirrors_from_repo: url -> Mirror for the mirrors of the topology.
load_mirrors_from_repo(groups, rnd, t) ==
  [u \in UrlsOf(groups) |->
     LET i == CHOOSE k \in 1..Len(Flatten(groups)) : Flatten(groups)[k].repo_url = u
     IN  NewMirror(Flatten(groups)[i], rnd[u], t)]

\* update_from that leaves the failure count of the fresh Mirror in place.
update_from_forgets_failures(self, other) ==
  [self EXCEPT !.last_check = other.last_check,
               !.last_successful_check = other.last_successful_check,
               !.last_sync_time = other.last_sync_time]

\* update_from that takes over the other object's next_check as well.
update_from_copies_next_check(self, other) ==
  [self EXCEPT !.consecutive_check_failures = other.consecutive_check_failures,
               !.last_check = other.last_check,
               !.last_successful_check = other.last_successful_check,
               !.last_sync_time = other.last_sync_time,
               !.next_check = other.next_check]

\* update_from that leaves the last_check of the fresh Mirror in place.
update_from_skips_last_check(self, other) ==
  [self EXCEPT !.consecutive_check_failures = other.consecutive_check_failures,
               !.last_successful_check = other.last_successful_check,
               !.last_sync_time = other.last_sync_time]

\* Mirror.update_from
update_from(self, other) ==
  [self EXCEPT !.consecutive_check_failures = other.consecutive_check_failures,
               !.last_check = other.last_check,
               !.last_successful_check = other.last_successful_check,
               !.last_sync_time = other.last_sync_time]

\* The cache file: absent, or its bytes.  maybe_write_cache opens the file
\* with "wb", which empties it, and pickle.dump's bytes reach it later: a
\* process killed in between leaves the file empty or cut short.
NoCache == [kind |-> "absent"]
EmptyCache == [kind |-> "empty"]
TornCache(cut) == [kind |-> "torn", cut |-> cut]
NotAPickle(bytes) == [kind |-> "not_a_pickle", bytes |-> bytes]
OtherPickle == [kind |-> "other_object"]
CacheOf(ms) == [kind |-> "snapshot", mirrors |-> ms]

\* Files that are not the pickle of a list of MirrorGroup: empty, a pickle
\* cut after its protocol header or inside its frame, other bytes, the
\* pickle of another object.
UnusableCaches ==
  {EmptyCache, OtherPickle}
    \cup {TornCache(cut) : cut \in {"after_header", "in_frame"}}
    \cup {NotAPickle(bytes) : bytes \in {"garbage", "}"}}

\* open(cache_path, "rb") and pickle.load(f): the exception raised, or
\* "none".  Out of input where an opcode is expected (an empty file, a
\* file that ends after the header, "}") is EOFError; a frame cut short and
\* an invalid load key are UnpicklingError.
pickle_load(cached) ==
  CASE cached.kind = "absent" -> "FileNotFoundError"
    [] cached.kind = "empty" -> "EOFError"
    [] cached.kind = "torn" ->
         IF cached.cut = "after_header" THEN "EOFError" ELSE "UnpicklingError"
    [] cached.kind = "not_a_pickle" ->
         IF cached.bytes = "}" THEN "EOFError" ELSE "UnpicklingError"
    [] OTHER -> "none"

\* _load_mirrors_from_cache: the cached mirrors by url ("groups"), None, or
\* an exception ("raise").  FileNotFoundError and pickle.UnpicklingError are
\* caught; an object that is not a list of MirrorGroup is refused.
load_mirrors_from_cache(cached) ==
  IF pickle_load(cached) \in {"FileNotFoundError", "UnpicklingError"}
    THEN [end |-> "None", mirrors |-> << >>]
  ELSE IF pickle_load(cached) # "none"
    THEN [end |-> "raise", mirrors |-> << >>]
  ELSE IF cached.kind # "snapshot"
    THEN [end |-> "None", mirrors |-> << >>]
  ELSE [end |-> "groups", mirrors |-> cached.mirrors]

\* maybe_write_cache that writes only while there is no snapshot yet.
maybe_write_cache_once(cached, ms) ==
  IF cached.kind = "snapshot" THEN cached ELSE CacheOf(ms)

\* maybe_write_cache: the cache file after the call.
maybe_write_cache(cached, ms) == CacheOf(ms)

\* load_mirrors that does not look at the cache.
load_mirrors_ignores_cache(groups, rnd, t, cached) ==
  [raised |-> FALSE, mirrors |-> load_mirrors_from_repo(groups, rnd, t)]

\* load_mirrors: the fresh topology, with the cached state of the mirrors
\* the cache knows by url; raised when an exception leaves the function.
load_mirrors(groups, rnd, t, cached) ==
  LET from_repo == load_mirrors_from_repo(groups, rnd, t)
      from_cache == load_mirrors_from_cache(cached)
  IN  IF from_cache.end = "raise"
        THEN [raised |-> TRUE, mirrors |-> << >>]
      ELSE IF from_cache.end = "None" \/ DOMAIN from_cache.mirrors = {}
        THEN [raised |-> FALSE, mirrors |-> from_repo]
      ELSE [raised |-> FALSE,
            mirrors |-> [u \in DOMAIN from_repo |->
                           IF u \in DOMAIN from_cache.mirrors
                           THEN update_from(from_repo[u], from_cache.mirrors[u])
                           ELSE from_repo[u]]]

\* ------------------------------------------------------------------------
\* mirror-minder.py: authorities, transitions, the health judge
\* ------------------------------------------------------------------------

\* extract_authoritative_mirrors: repo_name -> repo_url of its authority.
AuthorityUrls(groups, repo_name) ==
  {Flatten(groups)[i].repo_url : i \in
     {k \in 1..Len(Flatten(groups)) :
        /\ Flatten(groups)[k].repo_name = repo_name
        /\ is_authoritative(Flatten(groups)[k].repo_url)}}

\* extract_authoritative_mirrors without its assertion.
authorities_unique_unchecked(groups) == TRUE

\* The assertion of extract_authoritative_mirrors holds.
authorities_unique(groups) ==
  \A i, k \in 1..Len(Flatten(groups)) :
     ( /\ i # k
       /\ is_authoritative(Flatten(groups)[i].repo_url)
       /\ is_authoritative(Flatten(groups)[k].repo_url) )
     => Flatten(groups)[i].repo_name # Flatten(groups)[k].repo_name

\* authorities.get(repo_name): <<the authority's Mirror>>, or <<>> for None.
authority_of(groups, ms, repo_name) ==
  IF AuthorityUrls(groups, repo_name) = {} THEN <<>>
  ELSE << ms[CHOOSE u \in AuthorityUrls(groups, repo_name) : TRUE] >>

\* fail with a delay that grows with the failure count.
fail_backs_off(mirror, random2, t) ==
  [mirror EXCEPT !.last_check = t,
                 !.consecutive_check_failures = @ + 1,
                 !.next_check = next_check_time(
                                  CHECK_INTERVAL * (mirror.consecutive_check_failures + 1),
                                  random2, t)]

\* succeed that leaves the failure count alone.
succeed_keeps_failures(mirror, sync_time, random2, t) ==
  [mirror EXCEPT !.last_check = t,
                 !.last_successful_check = t,
                 !.last_sync_time = sync_time,
                 !.next_check = next_check_time(NONE, random2, t)]

\* check_and_update_mirror.fail
fail(mirror, random2, t) ==
  [mirror EXCEPT !.last_check = t,
                 !.consecutive_check_failures = @ + 1,
                 !.next_check = next_check_time(NONE, random2, t)]

\* check_and_update_mirror.succeed
succeed(mirror, sync_time, random2, t) ==
  [mirror EXCEPT !.last_check = t,
                 !.last_successful_check = t,
                 !.last_sync_time = sync_time,
                 !.consecutive_check_failures = 0,
                 !.next_check = next_check_time(NONE, random2, t)]

Verdict(healthy, why) == [healthy |-> healthy, why |-> why]

\* The earlier revision's judge_mirror (src/mirror-minder.py): the failure
\* limit is exclusive, fewer failures fall through to the freshness check,
\* missing sync times count as healthy, and there is no grace period and no
\* below-target band.
judge_mirror_legacy(mirror, authority, t) ==
  IF is_authoritative(mirror.repo_url)
    THEN Verdict("AssertionError", "judged_an_authority")
  ELSE IF mirror.consecutive_check_failures > CONSECUTIVE_FAIL_LIMIT
    THEN Verdict("False", "unavailable")
  ELSE IF mirror.last_sync_time = NONE
    THEN Verdict("True", "authority_unknown")
  ELSE IF authority = <<>> \/ authority[1].last_sync_time = NONE
    THEN Verdict("True", "authority_unknown")
  ELSE
    LET staleness == authority[1].last_sync_time - mirror.last_sync_time
    IN  IF staleness > STALENESS_LIMIT
          THEN Verdict("False", "stale")
          ELSE Verdict("True", "good")

\* judge_mirror with the freshness bands' bounds taken inclusively.
judge_mirror_inclusive_bands(mirror, authority, t) ==
  IF is_authoritative(mirror.repo_url)
    THEN Verdict("AssertionError", "judged_an_authority")
  ELSE IF mirror.consecutive_check_failures >= CONSECUTIVE_FAIL_LIMIT
    THEN Verdict("False", "unavailable")
  ELSE IF mirror.consecutive_check_failures # 0
    THEN Verdict("None", "failing")
  ELSE IF mirror.last_sync_time = NONE
    THEN Verdict("None", "never_checked")
  ELSE IF authority = <<>> \/ authority[1].last_sync_time = NONE
    THEN Verdict("None", "authority_unknown")
  ELSE
    LET staleness == authority[1].last_sync_time - mirror.last_sync_time
        authority_age == t - authority[1].last_sync_time
    IN  IF staleness >= STALENESS_LIMIT
          THEN IF authority_age < AUTHORITY_UPDATE_GRACE_PERIOD
                 THEN Verdict("None", "grace")
                 ELSE Verdict("False", "stale")
        ELSE IF staleness >= FRESHNESS_TARGET
          THEN Verdict("True", "below_target")
        ELSE Verdict("True", "good")

\* judge_mirror with the grace period's bound taken inclusively.
judge_mirror_inclusive_grace(mirror, authority, t) ==
  IF is_authoritative(mirror.repo_url)
    THEN Verdict("AssertionError", "judged_an_authority")
  ELSE IF mirror.consecutive_check_failures >= CONSECUTIVE_FAIL_LIMIT
    THEN Verdict("False", "unavailable")
  ELSE IF mirror.consecutive_check_failures # 0
    THEN Verdict("None", "failing")
  ELSE IF mirror.last_sync_time = NONE
    THEN Verdict("None", "never_checked")
  ELSE IF authority = <<>> \/ authority[1].last_sync_time = NONE
    THEN Verdict("None", "authority_unknown")
  ELSE
    LET staleness == authority[1].last_sync_time - mirror.last_sync_time
        authority_age == t - authority[1].last_sync_time
    IN  IF staleness > STALENESS_LIMIT
          THEN IF authority_age <= AUTHORITY_UPDATE_GRACE_PERIOD
                 THEN Verdict("None", "grace")
                 ELSE Verdict("False", "stale")
        ELSE IF staleness > FRESHNESS_TARGET
          THEN Verdict("True", "below_target")
        ELSE Verdict("True", "good")

\* judge_mirror: (Optional[bool], explanation).  healthy is "True", "False"
\* or "None"; why names the explanation the code builds.
judge_mirror(mirror, authority, t) ==
  IF is_authoritative(mirror.repo_url)
    THEN Verdict("AssertionError", "judged_an_authority")
  ELSE IF mirror.consecutive_check_failures >= CONSECUTIVE_FAIL_LIMIT
    THEN Verdict("False", "unavailable")
  ELSE IF mirror.consecutive_check_failures # 0
    THEN Verdict("None", "failing")
  ELSE IF mirror.last_sync_time = NONE
    THEN Verdict("None", "never_checked")
  ELSE IF authority = <<>> \/ authority[1].last_sync_time = NONE
    THEN Verdict("None", "authority_unknown")
  ELSE
    LET staleness == authority[1].last_sync_time - mirror.last_sync_time
        authority_age == t - authority[1].last_sync_time
    IN  IF staleness > STALENESS_LIMIT
          THEN IF authority_age < AUTHORITY_UPDATE_GRACE_PERIOD
                 THEN Verdict("None", "grace")
                 ELSE Verdict("False", "stale")
        ELSE IF staleness > FRESHNESS_TARGET
          THEN Verdict("True", "below_target")
        ELSE Verdict("True", "good")

\* ------------------------------------------------------------------------
\* issues.py and the notification decision
\* ------------------------------------------------------------------------

\* issue_title: depends on the domain alone.
issue_title(package_repo_domain) ==
  <<"mirrors: ", package_repo_domain, " is unhealthy">>

Domains == {"packages.termux.dev", "mirror.example"}
Titles == {issue_title(d) : d \in Domains}

\* One gh call of a judgment: which operation, on which title, and whether
\* it returned (ok) or raised sh.ErrorReturnCode / ValueError.
Op(name, title, ok) == [op |-> name, title |-> title, ok |-> ok]

\* What goes wrong with gh in a judgment: "none" when the tracker answers;
\* the call that exits non-zero (sh.ErrorReturnCode); a search whose output
\* is no JSON (ValueError); a create that exits zero and prints nothing.
GhFailures ==
  {"none", "search", "update", "create", "close",
   "search_not_json", "create_no_output"}

\* search_issues: the url of an open issue with the title, or None.
search_issues(iss, title) == iss[title] > 0

\* update_github_issue that looks at `create` before it looks for an open
\* issue.
update_github_issue_create_first(iss, repo_domain, create, lo, gh_fail) ==
  LET title == issue_title(repo_domain)
  IN  IF lo THEN [ops |-> <<>>, issues |-> iss, escaped |-> FALSE]
      ELSE IF create
        THEN [ops |-> << Op("create", title, gh_fail # "create") >>,
              issues |-> IF gh_fail = "create" THEN iss
                         ELSE [iss EXCEPT ![title] = @ + 1],
              escaped |-> gh_fail = "create_no_output"]
      ELSE IF gh_fail \in {"search", "search_not_json"}
        THEN [ops |-> << Op("search", title, FALSE) >>, issues |-> iss,
              escaped |-> FALSE]
      ELSE IF iss[title] > 0
        THEN [ops |-> << Op("search", title, TRUE),
                         Op("update", title, gh_fail # "update") >>,
              issues |-> iss, escaped |-> FALSE]
      ELSE [ops |-> << Op("search", title, TRUE) >>, issues |-> iss,
            escaped |-> FALSE]

\* The earlier revision's file_github_issue (src/mirror-minder.py): an open
\* issue is only logged, and a missing one is created whatever the verdicts.
update_github_issue_legacy(iss, repo_domain, create, lo, gh_fail) ==
  LET title == issue_title(repo_domain)
  IN  IF lo THEN [ops |-> <<>>, issues |-> iss, escaped |-> FALSE]
      ELSE IF gh_fail \in {"search", "search_not_json"}
        THEN [ops |-> << Op("search", title, FALSE) >>, issues |-> iss,
              escaped |-> FALSE]
      ELSE IF iss[title] > 0
        THEN [ops |-> << Op("search", title, TRUE) >>, issues |-> iss,
              escaped |-> FALSE]
      ELSE [ops |-> << Op("search", title, TRUE),
                       Op("create", title, gh_fail # "create") >>,
            issues |-> IF gh_fail = "create" THEN iss
                       ELSE [iss EXCEPT ![title] = @ + 1],
            escaped |-> gh_fail = "create_no_output"]

\* update_github_issue that refreshes an open issue only while a mirror is
\* Unhealthy.
update_github_issue_updates_on_red(iss, repo_domain, create, lo, gh_fail) ==
  LET title == issue_title(repo_domain)
  IN  IF lo THEN [ops |-> <<>>, issues |-> iss, escaped |-> FALSE]
      ELSE IF gh_fail \in {"search", "search_not_json"}
        THEN [ops |-> << Op("search", title, FALSE) >>, issues |-> iss,
              escaped |-> FALSE]
      ELSE IF iss[title] > 0
        THEN IF create
               THEN [ops |-> << Op("search", title, TRUE),
                                Op("update", title, gh_fail # "update") >>,
                     issues |-> iss, escaped |-> FALSE]
               ELSE [ops |-> << Op("search", title, TRUE) >>, issues |-> iss,
                     escaped |-> FALSE]
      ELSE IF create
        THEN [ops |-> << Op("search", title, TRUE),
                         Op("create", title, gh_fail # "create") >>,
              issues |-> IF gh_fail = "create" THEN iss
                         ELSE [iss EXCEPT ![title] = @ + 1],
              escaped |-> gh_fail = "create_no_output"]
      ELSE [ops |-> << Op("search", title, TRUE) >>, issues |-> iss,
            escaped |-> FALSE]

\* update_github_issue without the LOG_ONLY return.
update_github_issue_ignores_log_only(iss, repo_domain, create, lo, gh_fail) ==
  LET title == issue_title(repo_domain)
  IN  IF gh_fail \in {"search", "search_not_json"}
        THEN [ops |-> << Op("search", title, FALSE) >>, issues |-> iss,
              escaped |-> FALSE]
      ELSE IF iss[title] > 0
        THEN [ops |-> << Op("search", title, TRUE),
                         Op("update", title, gh_fail # "update") >>,
              issues |-> iss, escaped |-> FALSE]
      ELSE IF create
        THEN [ops |-> << Op("search", title, TRUE),
                         Op("create", title, gh_fail # "create") >>,
              issues |-> IF gh_fail = "create" THEN iss
                         ELSE [iss EXCEPT ![title] = @ + 1],
              escaped |-> gh_fail = "create_no_output"]
      ELSE [ops |-> << Op("search", title, TRUE) >>, issues |-> iss,
            escaped |-> FALSE]

\* update_github_issue: [ops |-> the gh calls made, issues |-> the tracker
\* after, escaped |-> an exception left the function].  The except clause
\* catches sh.ErrorReturnCode and ValueError; open_new_issue's
\* output.splitlines()[-1] raises IndexError on an empty output.
update_github_issue(iss, repo_domain, create, lo, gh_fail) ==
  LET title == issue_title(repo_domain)
  IN  IF lo THEN [ops |-> <<>>, issues |-> iss, escaped |-> FALSE]
      ELSE IF gh_fail \in {"search", "search_not_json"}
        THEN [ops |-> << Op("search", title, FALSE) >>, issues |-> iss,
              escaped |-> FALSE]
      ELSE IF search_issues(iss, title)
        THEN [ops |-> << Op("search", title, TRUE),
                         Op("update", title, gh_fail # "update") >>,
              issues |-> iss, escaped |-> FALSE]
      ELSE IF create
        THEN [ops |-> << Op("search", title, TRUE),
                         Op("create", title, gh_fail # "create") >>,
              issues |-> IF gh_fail = "create" THEN iss
                         ELSE [iss EXCEPT ![title] = @ + 1],
              escaped |-> gh_fail = "create_no_output"]
      ELSE [ops |-> << Op("search", title, TRUE) >>, issues |-> iss,
            escaped |-> FALSE]

\* close_github_issue that closes before it writes the final status.
close_github_issue_close_first(iss, repo_domain, lo, gh_fail) ==
  LET title == issue_title(repo_domain)
  IN  IF lo THEN [ops |-> <<>>, issues |-> iss, escaped |-> FALSE]
      ELSE IF gh_fail \in {"search", "search_not_json"}
        THEN [ops |-> << Op("search", title, FALSE) >>, issues |-> iss,
              escaped |-> FALSE]
      ELSE IF iss[title] > 0
        THEN IF gh_fail = "close"
               THEN [ops |-> << Op("search", title, TRUE),
                                Op("close", title, FALSE) >>,
                     issues |-> iss, escaped |-> FALSE]
               ELSE [ops |-> << Op("search", title, TRUE),
                                Op("close", title, TRUE),
                                Op("update", title, gh_fail # "update") >>,
                     issues |-> [iss EXCEPT ![title] = @ - 1],
                     escaped |-> FALSE]
      ELSE [ops |-> << Op("search", title, TRUE) >>, issues |-> iss,
            escaped |-> FALSE]

\* close_github_issue: search, then update, then close; an exception of
\* one call skips the calls after it.
close_github_issue(iss, repo_domain, lo, gh_fail) ==
  LET title == issue_title(repo_domain)
  IN  IF lo THEN [ops |-> <<>>, issues |-> iss, escaped |-> FALSE]
      ELSE IF gh_fail \in {"search", "search_not_json"}
        THEN [ops |-> << Op("search", title, FALSE) >>, issues |-> iss,
              escaped |-> FALSE]
      ELSE IF search_issues(iss, title)
        THEN IF gh_fail = "update"
               THEN [ops |-> << Op("search", title, TRUE),
                                Op("update", title, FALSE) >>,
                     issues |-> iss, escaped |-> FALSE]
               ELSE [ops |-> << Op("search", title, TRUE),
                                Op("update", title, TRUE),
                                Op("close", title, gh_fail # "close") >>,
                     issues |-> IF gh_fail = "close" THEN iss
                                ELSE [iss EXCEPT ![title] = @ - 1],
                     escaped |-> FALSE]
      ELSE [ops |-> << Op("search", title, TRUE) >>, issues |-> iss,
            escaped |-> FALSE]

\* The earlier revision's gate (src/mirror-minder.py): checked at least once.
is_recent_legacy(last_check, t) == last_check # NONE

\* judge_mirror_group.is_recent
is_recent(last_check, t) ==
  IF last_check = NONE THEN FALSE
  ELSE t - last_check < 2 * CHECK_INTERVAL

\* The gate of judge_mirror_group: every mirror of the group was checked
\* recently.
all_recent(group, ms, t) ==
  \A i \in 1..Len(group.mirrors) :
     is_recent(ms[group.mirrors[i].repo_url].last_check, t)

RECURSIVE explanations_of_judges_all(_, _, _, _)
\* The loop without its `continue`: judge_mirror is called for the
\* authoritative mirrors of the group as well.
explanations_of_judges_all(entries, groups, ms, t) ==
  IF entries = <<>> THEN <<>>
  ELSE << [repo_url |-> Head(entries).repo_url,
           verdict |-> judge_mirror(ms[Head(entries).repo_url],
                                    authority_of(groups, ms, Head(entries).repo_name),
                                    t)] >>
         \o explanations_of_judges_all(Tail(entries), groups, ms, t)

RECURSIVE explanations_of(_, _, _, _)
\* The explanations list of judge_mirror_group: one entry per
\* non-authoritative mirror, in list order.
explanations_of(entries, groups, ms, t) ==
  IF entries = <<>> THEN <<>>
  ELSE
    LET e == Head(entries)
        rest == explanations_of(Tail(entries), groups, ms, t)
    IN  IF is_authoritative(e.repo_url) THEN rest
        ELSE << [repo_url |-> e.repo_url,
                 verdict |-> judge_mirror(ms[e.repo_url],
                                          authority_of(groups, ms, e.repo_name),
                                          t)] >> \o rest

NoJudgment == [called |-> FALSE]

\* judge_mirror_group without the `if not explanations: return`: all() of
\* an empty list is True, any() of it is False.
judge_mirror_group_judges_nobody(group, groups, ms, t, iss, lo, ac, gh_fail) ==
  IF ~ all_recent(group, ms, t)
    THEN [called |-> TRUE, domain |-> group.domain, gate |-> FALSE,
          explanations |-> <<>>, any_red |-> FALSE, all_green |-> FALSE,
          found |-> FALSE, ops |-> <<>>, issues |-> iss, escaped |-> FALSE]
  ELSE
    LET explanations == explanations_of(group.mirrors, groups, ms, t)
        any_red == \E i \in 1..Len(explanations) :
                      explanations[i].verdict.healthy = "False"
        all_green == \A i \in 1..Len(explanations) :
                      explanations[i].verdict.healthy = "True"
        did == IF all_green /\ ac
                 THEN close_github_issue(iss, group.domain, lo, gh_fail)
                 ELSE update_github_issue(iss, group.domain, any_red, lo, gh_fail)
    IN  [called |-> TRUE, domain |-> group.domain, gate |-> TRUE,
         explanations |-> explanations, any_red |-> any_red,
         all_green |-> all_green,
         found |-> search_issues(iss, issue_title(group.domain)),
         ops |-> did.ops, issues |-> did.issues,
         escaped |-> did.escaped]

\* judge_mirror_group: what the call did, and the tracker after it.
judge_mirror_group(group, groups, ms, t, iss, lo, ac, gh_fail) ==
  IF ~ all_recent(group, ms, t)
    THEN [called |-> TRUE, domain |-> group.domain, gate |-> FALSE,
          explanations |-> <<>>, any_red |-> FALSE, all_green |-> FALSE,
          found |-> FALSE, ops |-> <<>>, issues |-> iss, escaped |-> FALSE]
  ELSE
    LET explanations == explanations_of(group.mirrors, groups, ms, t)
        any_red == \E i \in 1..Len(explanations) :
                      explanations[i].verdict.healthy = "False"
        all_green == \A i \in 1..Len(explanations) :
                      explanations[i].verdict.healthy = "True"
        did == IF all_green /\ ac
                 THEN close_github_issue(iss, group.domain, lo, gh_fail)
                 ELSE update_github_issue(iss, group.domain, any_red, lo, gh_fail)
    IN  IF explanations = <<>>
          THEN [called |-> TRUE, domain |-> group.domain, gate |-> TRUE,
                explanations |-> <<>>, any_red |-> FALSE, all_green |-> FALSE,
                found |-> FALSE, ops |-> <<>>, issues |-> iss,
                escaped |-> FALSE]
          ELSE [called |-> TRUE, domain |-> group.domain, gate |-> TRUE,
                explanations |-> explanations, any_red |-> any_red,
                all_green |-> all_green,
                found |-> search_issues(iss, issue_title(group.domain)),
                ops |-> did.ops, issues |-> did.issues,
                escaped |-> did.escaped]

\* When each judged mirror's unbroken run of stale verdicts (staleness above
\* STALENESS_LIMIT on a successful check) began; NONE outside such a run.
stale_run(since, explanations, t) ==
  [u \in DOMAIN since |->
     IF \E i \in 1..Len(explanations) : explanations[i].repo_url = u
     THEN LET i == CHOOSE k \in 1..Len(explanations) : explanations[k].repo_url = u
          IN  IF explanations[i].verdict.why \in {"grace", "stale"}
                THEN IF since[u] = NONE THEN t ELSE since[u]
                ELSE NONE
     ELSE since[u]]

\* ------------------------------------------------------------------------
\* The process
\* ------------------------------------------------------------------------

\* The sync times a mirror's Release file may carry at time t: one far in
\* the past, or t itself (the mirror has just synced).
ANCIENT == 0
FetchedSyncTimes(t) == {ANCIENT, t}

\* The text of a timestamp that "%d %b %Y %H:%M:%S%z" does not match:
\* datetime.strptime raises ValueError on it.
MALFORMED == -2

\* A line of the fetched Release file as the loop takes it apart: tag is
\* what the line begins with, pieces are the parts of the rest between the
\* ", " separators.  A piece is the text of a timestamp (stamp: the instant
\* it spells, or MALFORMED) and the zone that ends it.
Piece(stamp, zone) == [stamp |-> stamp, zone |-> zone]
Line(tag, pieces) == [tag |-> tag, pieces |-> pieces]

\* "Tue"
WEEKDAY == Piece(MALFORMED, "")

\* The lines a Release file may hold: a line of another field, and Date:
\* lines with or without the weekday part, in UTC or not, with a timestamp
\* that parses or not.
Lines(t) ==
  {Line("Origin:", << Piece(MALFORMED, "") >>)}
    \cup {Line("Date:", << WEEKDAY, Piece(stamp, zone) >>) :
            stamp \in FetchedSyncTimes(t) \cup {MALFORMED},
            zone \in {" UTC", " EST"}}
    \cup {Line("Date:", << Piece(t, " UTC") >>)}

MaxLines == 2

RECURSIVE Bodies(_, _)
\* The Release files of at most n lines.
Bodies(t, n) ==
  IF n = 0 THEN {<<>>}
  ELSE LET shorter == Bodies(t, n - 1)
       IN  shorter \cup {<< l >> \o b : l \in Lines(t),
                                        b \in {x \in shorter : Len(x) = n - 1}}

\* What requests.get may end in: one of the exceptions the function
\* names, or a response with a status code and a text.
FetchErrors ==
  {"ConnectionError", "ReadTimeout", "ChunkedEncodingError", "RequestException"}
Raised(exception) == [kind |-> "raised", exception |-> exception]
Answered(status_code, text) ==
  [kind |-> "response", status_code |-> status_code, text |-> text]

Responses(t) ==
  {Raised(e) : e \in FetchErrors}
    \cup {Answered(404, <<>>)}
    \cup {Answered(200, b) : b \in Bodies(t, MaxLines)}

\* One response for each way a check of the running process can end.  The
\* authority's Release is dated now or a grace period ago, a mirror's now
\* or long ago.
ServedToProcess(repo_url, t) ==
  {Raised("ConnectionError"),
   Answered(200, << Line("Date:", << Piece(t, " UTC") >>) >>)}
    \cup {Answered(200, << Line("Date:", << WEEKDAY, Piece(stamp, " UTC") >>) >>) :
            stamp \in IF is_authoritative(repo_url)
                        THEN {t - AUTHORITY_UPDATE_GRACE_PERIOD, t}
                        ELSE {ANCIENT, t}}

Scanned(end, sync_time) == [end |-> end, sync_time |-> sync_time]

RECURSIVE scan_lines_first_date_only(_)
\* The for loop over the lines, were the first Date: line to decide: a
\* Date: line that is not in UTC ends the scan in a failure.
scan_lines_first_date_only(lines) ==
  IF lines = <<>> THEN Scanned("fail", NONE)
  ELSE LET line == Head(lines)
       IN  IF line.tag # "Date:" THEN scan_lines_first_date_only(Tail(lines))
           ELSE IF Len(line.pieces) < 2 THEN Scanned("raise", NONE)
           ELSE IF line.pieces[2].zone # " UTC" THEN Scanned("fail", NONE)
           ELSE IF line.pieces[2].stamp = MALFORMED THEN Scanned("fail", NONE)
           ELSE Scanned("succeed", line.pieces[2].stamp)

RECURSIVE scan_lines(_)
\* The for loop over release_req.text.splitlines().  On a line that starts
\* with "Date:": split(", ")[1] raises IndexError when there is no second
\* piece, and only ValueError is caught; a piece that does not end in
\* " UTC" is logged and the loop continues with the next line; strptime's
\* ValueError ends in fail; otherwise succeed with the parsed instant.  No
\* line left: fail.
scan_lines(lines) ==
  IF lines = <<>> THEN Scanned("fail", NONE)
  ELSE LET line == Head(lines)
       IN  IF line.tag # "Date:" THEN scan_lines(Tail(lines))
           ELSE IF Len(line.pieces) < 2 THEN Scanned("raise", NONE)
           ELSE IF line.pieces[2].zone # " UTC" THEN scan_lines(Tail(lines))
           ELSE IF line.pieces[2].stamp = MALFORMED THEN Scanned("fail", NONE)
           ELSE Scanned("succeed", line.pieces[2].stamp)

\* check_and_update_mirror: how the call ends ("fail", "succeed", or
\* "raise" for an exception that leaves it) and the Mirror object after.
check_and_update_mirror(mirror, response, random2, t) ==
  IF response.kind = "raised"
    THEN [end |-> "fail", sync_time |-> NONE, mirror |-> fail(mirror, random2, t)]
  ELSE IF response.status_code # 200
    THEN [end |-> "fail", sync_time |-> NONE, mirror |-> fail(mirror, random2, t)]
  ELSE
    LET scanned == scan_lines(response.text)
    IN  [end |-> scanned.end,
         sync_time |-> scanned.sync_time,
         mirror |-> IF scanned.end = "succeed"
                      THEN succeed(mirror, scanned.sync_time, random2, t)
                    ELSE IF scanned.end = "fail"
                      THEN fail(mirror, random2, t)
                    ELSE mirror]

NoCheck == [called |-> FALSE]

\* main()'s monitor_period_s: round(P + (random*2 - 1) * (P / 10))
monitor_period_s(random2) ==
  Round(10 * MONITOR_PERIOD_S + (random2 - 1) * MONITOR_PERIOD_S, 10)

\* The inner for loop with `mirror.next_check <= now`.
DueIn_inclusive(groups, ms, t, g, from) ==
  {i \in from..Len(groups[g].mirrors) :
     ms[groups[g].mirrors[i].repo_url].next_check <= t}

\* The positions from `from` on, in group g, of the mirrors the inner for
\* loop finds due: mirror.next_check < now.
DueIn(groups, ms, t, g, from) ==
  {i \in from..Len(groups[g].mirrors) :
     ms[groups[g].mirrors[i].repo_url].next_check < t}

\* The groups from `from` on in which the tick finds a mirror due.
GroupsDue(groups, ms, t, from) ==
  {g \in from..Len(groups) : DueIn(groups, ms, t, g, 1) # {}}

Min(S) == CHOOSE x \in S : \A y \in S : x <= y

\* Where the for loops go next, from group `from` on: to the first due
\* mirror, or out of the loops and back to the while test.  Groups without
\* a due mirror are passed over (did_anything stays False for them).
Advance(groups, ms, t, from) ==
  IF GroupsDue(groups, ms, t, from) = {}
    THEN [pc |-> "loop", gi |-> 1, mi |-> 1]
    ELSE LET g == Min(GroupsDue(groups, ms, t, from))
         IN  [pc |-> "check", gi |-> g, mi |-> Min(DueIn(groups, ms, t, g, 1))]

Init ==
  /\ now = StartTime
  /\ pc = "load"
  /\ log_only = LOG_ONLY
  /\ auto_close = AUTO_CLOSE
  /\ registry \in Topologies
  /\ mirror_groups = <<>>
  /\ mirrors = << >>
  /\ cache = NoCache
  /\ epoch_start = StartTime
  /\ monitor_period = 0
  /\ tick_now = StartTime
  /\ gi = 1
  /\ mi = 1
  /\ restarts = 0
  /\ issues = [t \in Titles |-> 0]
  /\ lastJ = NoJudgment
  /\ lastC = NoCheck
  /\ stale_since = [u \in AllUrls |-> NONE]
  /\ fail_run = [u \in AllUrls |-> 0]

\* main() draws the period; monitor_mirrors_for_a_while loads the topology,
\* merges the cache, extracts the authorities and schedules them first.  An
\* exception that leaves load_mirrors ends the process.
Load ==
  /\ pc = "load"
  /\ \E rp \in RandomSamples, rnd \in [UrlsOf(registry) -> RandomSamples] :
         LET groups == registry
             did == load_mirrors(groups, rnd, now, cache)
             loaded == did.mirrors
         IN  /\ monitor_period' = monitor_period_s(rp)
             /\ IF did.raised
                  THEN /\ UNCHANGED <<mirror_groups, mirrors>>
                       /\ pc' = "crashed"
                  ELSE IF authorities_unique(groups)
                  THEN /\ mirror_groups' = groups
                       /\ mirrors' =
                            [u \in DOMAIN loaded |->
                               IF is_authoritative(u)
                                 THEN [loaded[u] EXCEPT !.next_check = EPOCH]
                                 ELSE loaded[u]]
                       /\ pc' = "loop"
                  ELSE /\ mirror_groups' = groups
                       /\ mirrors' = loaded
                       /\ pc' = "halted"
  /\ epoch_start' = now
  /\ tick_now' = NONE
  /\ lastJ' = NoJudgment
  /\ lastC' = NoCheck
  /\ UNCHANGED <<now, log_only, auto_close, registry, cache, gi, mi,
                 restarts, issues, stale_since, fail_run>>

\* The clock value of the next pass of the while loop that can find a
\* mirror due.  The first pass of an epoch comes 0.1 s after the load, at
\* the clock value of the load (tick_now = NONE: no pass yet); after it,
\* the passes before the clock reaches its next value find nothing new.
NextPass == IF tick_now = NONE THEN now ELSE now + 1

\* The period is not over: the process samples now and walks the groups up
\* to the first mirror that is due.
Tick ==
  /\ pc = "loop"
  /\ now - epoch_start < monitor_period
  /\ NextPass <= MaxTime
  /\ now' = NextPass
  /\ tick_now' = NextPass
  /\ LET to == Advance(mirror_groups, mirrors, NextPass, 1)
     IN  /\ pc' = to.pc
         /\ gi' = to.gi
         /\ mi' = to.mi
  /\ lastJ' = NoJudgment
  /\ lastC' = NoCheck
  /\ UNCHANGED <<log_only, auto_close, registry, mirror_groups, mirrors, cache,
                 epoch_start, monitor_period, restarts, issues, stale_since,
                 fail_run>>

CurrentUrl == mirror_groups[gi].mirrors[mi].repo_url

\* check_and_update_mirror on the due mirror the tick is at, the server
\* giving one of `responses`.  After fail or succeed the inner for loop goes
\* on to the next due mirror of the group, or the group is judged; nothing
\* in the loops or in main() catches an exception, which ends the process.
CheckMirrorOn(responses) ==
  /\ pc = "check"
  /\ \E random2 \in RandomSamples, response \in responses :
       LET did == check_and_update_mirror(mirrors[CurrentUrl], response,
                                          random2, now)
       IN  /\ mirrors' = [mirrors EXCEPT ![CurrentUrl] = did.mirror]
           /\ fail_run' = [fail_run EXCEPT ![CurrentUrl] =
                             IF did.end = "fail" THEN @ + 1
                             ELSE IF did.end = "succeed" THEN 0
                             ELSE @]
           /\ lastC' = [called |-> TRUE, repo_url |-> CurrentUrl,
                        response |-> response, end |-> did.end,
                        sync_time |-> did.sync_time]
           /\ IF did.end = "raise"
                THEN /\ pc' = "crashed"
                     /\ mi' = mi
                ELSE IF DueIn(mirror_groups, mirrors, tick_now, gi, mi + 1) = {}
                  THEN /\ pc' = "judge"
                       /\ mi' = mi
                  ELSE /\ pc' = "check"
                       /\ mi' = Min(DueIn(mirror_groups, mirrors, tick_now,
                                          gi, mi + 1))
  /\ lastJ' = NoJudgment
  /\ UNCHANGED <<now, log_only, auto_close, registry, mirror_groups, cache,
                 epoch_start, monitor_period, tick_now, gi, restarts, issues,
                 stale_since>>

\* The check in the running process.  Responses that end the same way leave
\* the same Mirror object behind, so one response per way suffices here.
CheckMirror == CheckMirrorOn(ServedToProcess(CurrentUrl, now))

\* did_anything is True at the end of the group: judge_mirror_group, then
\* maybe_write_cache, then on to the later groups.  An exception that leaves
\* judge_mirror_group leaves main() too: the process dies with a traceback.
JudgeGroup ==
  /\ pc = "judge"
  /\ lastC' = NoCheck
  /\ \E gh_fail \in GhFailures :
       LET j == judge_mirror_group(mirror_groups[gi], mirror_groups, mirrors,
                                   now, issues, log_only, auto_close, gh_fail)
           to == Advance(mirror_groups, mirrors, tick_now, gi + 1)
       IN  /\ lastJ' = [k \in DOMAIN j \ {"issues"} |-> j[k]]
           /\ issues' = j.issues
           /\ stale_since' = stale_run(stale_since, j.explanations, now)
           /\ IF j.escaped
                THEN /\ pc' = "crashed"
                     /\ UNCHANGED <<cache, gi, mi>>
                ELSE /\ cache' = maybe_write_cache(cache, mirrors)
                     /\ pc' = to.pc
                     /\ gi' = to.gi
                     /\ mi' = to.mi
  /\ UNCHANGED <<now, log_only, auto_close, registry, mirror_groups, mirrors,
                 epoch_start, monitor_period, tick_now, restarts, fail_run>>

\* The period is over: the cache is written once more and main() starts the
\* next epoch.  The epoch's Mirror objects stay as they were until Load
\* replaces them.
EndEpoch ==
  /\ pc = "loop"
  /\ ~ (now - epoch_start < monitor_period)
  /\ cache' = maybe_write_cache(cache, mirrors)
  /\ pc' = "load"
  /\ gi' = 1
  /\ mi' = 1
  /\ lastJ' = NoJudgment
  /\ lastC' = NoCheck
  /\ UNCHANGED <<now, log_only, auto_close, registry, mirror_groups, mirrors,
                 epoch_start, monitor_period, tick_now, restarts, issues,
                 stale_since, fail_run>>

\* The process is killed, or has died, and is started again; what it held
\* in memory is lost, the cache file and the tracker are not.
Restart ==
  /\ pc \in {"loop", "check", "judge", "crashed"}
  /\ restarts < MaxRestarts
  /\ restarts' = restarts + 1
  /\ pc' = "load"
  /\ mirror_groups' = <<>>
  /\ mirrors' = << >>
  /\ gi' = 1
  /\ mi' = 1
  /\ lastJ' = NoJudgment
  /\ lastC' = NoCheck
  /\ UNCHANGED <<now, log_only, auto_close, registry, cache, epoch_start,
                 monitor_period, tick_now, issues, stale_since, fail_run>>

\* A human closes an open issue on the tracker.
HumanClose ==
  /\ \E title \in Titles :
       /\ issues[title] > 0
       /\ issues' = [issues EXCEPT ![title] = @ - 1]
  /\ lastJ' = NoJudgment
  /\ lastC' = NoCheck
  /\ UNCHANGED <<now, pc, log_only, auto_close, registry, mirror_groups, mirrors, cache,
                 epoch_start, monitor_period, tick_now, gi, mi, restarts,
                 stale_since, fail_run>>

Next ==
  \/ Load
  \/ Tick
  \/ CheckMirror
  \/ JudgeGroup
  \/ EndEpoch
  \/ Restart
  \/ HumanClose

Spec == Init /\ [][Next]_vars

\* The steps of a process that nobody kills.
Uninterrupted ==
  \/ Load
  \/ Tick
  \/ CheckMirror
  \/ JudgeGroup
  \/ EndEpoch
  \/ HumanClose

\* The process started with --log-only: main() sets LOG_ONLY before the
\* first epoch.  The tracker may hold an issue from an earlier run.
LogOnlyInit ==
  /\ now = StartTime
  /\ pc = "load"
  /\ log_only = TRUE
  /\ auto_close = AUTO_CLOSE
  /\ registry \in Topologies
  /\ mirror_groups = <<>>
  /\ mirrors = << >>
  /\ cache = NoCache
  /\ epoch_start = StartTime
  /\ monitor_period = 0
  /\ tick_now = StartTime
  /\ gi = 1
  /\ mi = 1
  /\ restarts = 0
  /\ issues \in {[t \in Titles |-> IF t = issue_title("mirror.example") THEN n ELSE 0] :
                   n \in 0..1}
  /\ lastJ = NoJudgment
  /\ lastC = NoCheck
  /\ stale_since = [u \in AllUrls |-> NONE]
  /\ fail_run = [u \in AllUrls |-> 0]

LogOnlySpec == LogOnlyInit /\ [][Uninterrupted]_vars

\* The process, never killed, over the orders in which the groups may be
\* listed.
EpochInit ==
  /\ now = StartTime
  /\ pc = "load"
  /\ log_only = LOG_ONLY
  /\ auto_close = AUTO_CLOSE
  /\ registry \in OrderedTopologies
  /\ mirror_groups = <<>>
  /\ mirrors = << >>
  /\ cache = NoCache
  /\ epoch_start = StartTime
  /\ monitor_period = 0
  /\ tick_now = StartTime
  /\ gi = 1
  /\ mi = 1
  /\ restarts = 0
  /\ issues = [t \in Titles |-> 0]
  /\ lastJ = NoJudgment
  /\ lastC = NoCheck
  /\ stale_since = [u \in AllUrls |-> NONE]
  /\ fail_run = [u \in AllUrls |-> 0]

EpochSpec == EpochInit /\ [][Uninterrupted]_vars

\* ------------------------------------------------------------------------
\* judge_mirror_group on arbitrary Mirror objects
\* ------------------------------------------------------------------------

\* The clock reading at the judgment.
JudgeTime == MaxTime

\* last_check: None, now, and the values around the recency bound.
JudgedLastChecks ==
  {NONE, JudgeTime}
    \cup (JudgeTime - 2 * CHECK_INTERVAL - 1)..(JudgeTime - 2 * CHECK_INTERVAL + 1)

\* The authority's last_sync_time: None, or an age around the grace period.
AuthoritySyncTimes ==
  {NONE}
    \cup (JudgeTime - AUTHORITY_UPDATE_GRACE_PERIOD - 1)..
         (JudgeTime - AUTHORITY_UPDATE_GRACE_PERIOD + 1)

\* A mirror's last_sync_time: None, or a time that puts its staleness on
\* either side of FRESHNESS_TARGET and of STALENESS_LIMIT for every age of
\* the authority.
MirrorSyncTimes ==
  {NONE}
    \cup (JudgeTime - AUTHORITY_UPDATE_GRACE_PERIOD - STALENESS_LIMIT - 2)..
         (JudgeTime - 1)

\* A Mirror object with the given monitoring state.
MirrorWith(entry, cf, lc, lst) ==
  [repo_url |-> entry.repo_url,
   repo_name |-> entry.repo_name,
   next_check |-> JudgeTime + CHECK_INTERVAL,
   consecutive_check_failures |-> cf,
   last_check |-> lc,
   last_successful_check |-> IF lst = NONE \/ cf > 0 THEN NONE ELSE lc,
   last_sync_time |-> lst]

\* The authority: checked in this tick, successfully or not.
AuthorityStates ==
  {MirrorWith(GroupAuthority.mirrors[1], IF lst = NONE THEN 1 ELSE 0, JudgeTime, lst) :
     lst \in AuthoritySyncTimes}

\* The main mirror, alone in its group: every monitoring state.
MainStates ==
  {MirrorWith(GroupMirrorMain.mirrors[1], cf, lc, lst) :
     cf \in 0..(CONSECUTIVE_FAIL_LIMIT + 1),
     lc \in JudgedLastChecks,
     lst \in MirrorSyncTimes}

\* The main mirror next to a sibling: at the ends of each field's range.
MainStatesBeside ==
  {m \in MainStates :
     /\ m.consecutive_check_failures \in {0, CONSECUTIVE_FAIL_LIMIT}
     /\ m.last_sync_time \in
          {NONE, JudgeTime - 1,
           JudgeTime - AUTHORITY_UPDATE_GRACE_PERIOD - STALENESS_LIMIT - 2}}

\* The root mirror, whose repo has no authority.
RootStates ==
  {MirrorWith(GroupMirrorBoth.mirrors[2], cf, lc, IF cf = 0 THEN JudgeTime - 1 ELSE NONE) :
     cf \in {0, CONSECUTIVE_FAIL_LIMIT},
     lc \in JudgedLastChecks}

\* The Mirror objects by url that judge_mirror_group may be handed.
JudgedMirrors(groups) ==
  IF groups = TopoMain
    THEN {(URL_AUTH_MAIN :> a) @@ (URL_MIRROR_MAIN :> m) :
            a \in AuthorityStates, m \in MainStates}
    ELSE {(URL_AUTH_MAIN :> a) @@ (URL_MIRROR_MAIN :> m) @@ (URL_MIRROR_ROOT :> r) :
            a \in AuthorityStates, m \in MainStatesBeside, r \in RootStates}

\* The process is about to judge the mirror domain's group.
JudgeInit ==
  /\ now = JudgeTime
  /\ pc = "judge"
  /\ log_only \in BOOLEAN
  /\ auto_close \in BOOLEAN
  /\ registry \in JudgedTopologies
  /\ mirror_groups = registry
  /\ mirrors \in JudgedMirrors(registry)
  /\ cache = NoCache
  /\ epoch_start = JudgeTime - 1
  /\ monitor_period = MONITOR_PERIOD_S
  /\ tick_now = JudgeTime
  /\ gi = 2
  /\ mi = 1
  /\ restarts = 0
  /\ issues \in {[t \in Titles |-> IF t = issue_title("mirror.example") THEN n ELSE 0] :
                   n \in 0..1}
  /\ lastJ = NoJudgment
  /\ lastC = NoCheck
  /\ stale_since = [u \in AllUrls |-> NONE]
  /\ fail_run = [u \in AllUrls |->
                   IF u \in DOMAIN mirrors
                     THEN mirrors[u].consecutive_check_failures ELSE 0]

JudgeNext == JudgeGroup

JudgeSpec == JudgeInit /\ [][JudgeNext]_vars

\* ------------------------------------------------------------------------
\* One load of the topology, over every cache file (LoadSpec)
\* ------------------------------------------------------------------------

\* What an earlier run may have written: the mirrors of either topology,
\* in two states of each field, or a list of no groups.
CachedSnapshots ==
  {CacheOf(ms) :
     ms \in {<< >>} \cup
            {x \in JudgedMirrors(TopoMain) \cup JudgedMirrors(TopoBoth) :
               \A u \in DOMAIN x :
                  /\ x[u].last_check \in {NONE, JudgeTime}
                  /\ x[u].consecutive_check_failures \in {0, CONSECUTIVE_FAIL_LIMIT}
                  /\ x[u].last_sync_time \in {NONE, JudgeTime - 1}}}

\* The process starts an epoch, the cache file being in any state.
LoadInit ==
  /\ now = JudgeTime
  /\ pc = "load"
  /\ log_only = LOG_ONLY
  /\ auto_close = AUTO_CLOSE
  /\ registry \in JudgedTopologies
  /\ mirror_groups = <<>>
  /\ mirrors = << >>
  /\ cache \in {NoCache} \cup UnusableCaches \cup CachedSnapshots
  /\ epoch_start = JudgeTime
  /\ monitor_period = 0
  /\ tick_now = JudgeTime
  /\ gi = 1
  /\ mi = 1
  /\ restarts = 0
  /\ issues = [t \in Titles |-> 0]
  /\ lastJ = NoJudgment
  /\ lastC = NoCheck
  /\ stale_since = [u \in AllUrls |-> NONE]
  /\ fail_run = [u \in AllUrls |-> 0]

LoadNext == Load

LoadSpec == LoadInit /\ [][LoadNext]_vars

\* ------------------------------------------------------------------------
\* One check of one due mirror, over every response (CheckSpec)
\* ------------------------------------------------------------------------

\* The main mirror before the check: due, with or without a history.
CheckedStates ==
  {[MirrorWith(GroupMirrorMain.mirrors[1], cf, lc, lst)
      EXCEPT !.next_check = JudgeTime - 1] :
     cf \in 0..(CONSECUTIVE_FAIL_LIMIT + 1),
     lc \in {NONE, JudgeTime - CHECK_INTERVAL},
     lst \in {NONE, ANCIENT}}

\* The tick is at the main mirror, which is due; the authority is not.  The
\* cache holds what the tick before wrote: the mirrors as they are.
CheckInit ==
  /\ now = JudgeTime
  /\ pc = "check"
  /\ log_only = LOG_ONLY
  /\ auto_close = AUTO_CLOSE
  /\ registry = TopoMain
  /\ mirror_groups = registry
  /\ mirrors \in {(URL_AUTH_MAIN :> a) @@ (URL_MIRROR_MAIN :> m) :
                    a \in {MirrorWith(GroupAuthority.mirrors[1], 0,
                                      JudgeTime - 1, JudgeTime - 1)},
                    m \in CheckedStates}
  /\ cache = CacheOf(mirrors)
  /\ epoch_start = JudgeTime - 1
  /\ monitor_period = MONITOR_PERIOD_S
  /\ tick_now = JudgeTime
  /\ gi = 2
  /\ mi = 1
  /\ restarts = 0
  /\ issues = [t \in Titles |-> 0]
  /\ lastJ = NoJudgment
  /\ lastC = NoCheck
  /\ stale_since = [u \in AllUrls |-> NONE]
  /\ fail_run = [u \in AllUrls |->
                   IF u \in DOMAIN mirrors
                     THEN mirrors[u].consecutive_check_failures ELSE 0]

\* The check, the server giving any response.
CheckAnyResponse == CheckMirrorOn(Responses(now))

CheckNext == CheckAnyResponse

CheckSpec == CheckInit /\ [][CheckNext]_vars

\* ------------------------------------------------------------------------
\* The load of an epoch and its first pass, over the cache of an earlier
\* epoch (FirstPassSpec)
\* ------------------------------------------------------------------------

\* What the epoch before left in the cache for a mirror: never checked,
\* checked with success one time unit ago, or at the failure limit.
EarlierState(entry, history) ==
  IF history = "never" THEN MirrorWith(entry, 0, NONE, NONE)
  ELSE IF history = "synced"
    THEN MirrorWith(entry, 0, StartTime - 1, StartTime - 1)
  ELSE MirrorWith(entry, CONSECUTIVE_FAIL_LIMIT, StartTime - 1, NONE)

EarlierSnapshots(groups) ==
  {CacheOf([u \in UrlsOf(groups) |->
              LET i == CHOOSE k \in 1..Len(Flatten(groups)) :
                          Flatten(groups)[k].repo_url = u
              IN  EarlierState(Flatten(groups)[i], history[u])]) :
     history \in [UrlsOf(groups) -> {"never", "synced", "failing"}]}

FirstPassInit ==
  /\ now = StartTime
  /\ pc = "load"
  /\ log_only = LOG_ONLY
  /\ auto_close = AUTO_CLOSE
  /\ registry \in EpochTopologies
  /\ mirror_groups = <<>>
  /\ mirrors = << >>
  /\ cache \in {NoCache} \cup EarlierSnapshots(registry)
  /\ epoch_start = StartTime
  /\ monitor_period = 0
  /\ tick_now = StartTime
  /\ gi = 1
  /\ mi = 1
  /\ restarts = 0
  /\ issues = [t \in Titles |-> 0]
  /\ lastJ = NoJudgment
  /\ lastC = NoCheck
  /\ stale_since = [u \in AllUrls |-> NONE]
  /\ fail_run = [u \in AllUrls |-> 0]

\* The first pass of the while loop, 0.1 s after the load.
FirstTick == tick_now = NONE /\ Tick

FirstPassNext ==
  \/ Load
  \/ FirstTick
  \/ CheckMirror
  \/ JudgeGroup

FirstPassSpec == FirstPassInit /\ [][FirstPassNext]_vars

\* ------------------------------------------------------------------------
\* One tick, over the mirrors that may be due in it (TickSpec)
\* ------------------------------------------------------------------------

TickTopologies == {TopoBoth, TopoMirrorFirst, TopoShared}

\* The mirrors before the tick: each checked one time unit ago, and due in
\* the tick (next_check one unit before it) or not (next_check at it).
BeforeTick(groups) ==
  {[u \in UrlsOf(groups) |->
      LET i == CHOOSE k \in 1..Len(Flatten(groups)) :
                  Flatten(groups)[k].repo_url = u
      IN  [MirrorWith(Flatten(groups)[i], 0, StartTime - 1, StartTime - 1)
             EXCEPT !.next_check = next[u]]] :
     next \in [UrlsOf(groups) -> {StartTime, StartTime + 1}]}

\* The process sleeps in the while loop of an epoch.
TickInit ==
  /\ now = StartTime
  /\ pc = "loop"
  /\ log_only = LOG_ONLY
  /\ auto_close = AUTO_CLOSE
  /\ registry \in TickTopologies
  /\ mirror_groups = registry
  /\ mirrors \in BeforeTick(registry)
  /\ cache = CacheOf(mirrors)
  /\ epoch_start = StartTime - 1
  /\ monitor_period = MONITOR_PERIOD_S
  /\ tick_now = StartTime
  /\ gi = 1
  /\ mi = 1
  /\ restarts = 0
  /\ issues = [t \in Titles |-> 0]
  /\ lastJ = NoJudgment
  /\ lastC = NoCheck
  /\ stale_since = [u \in AllUrls |-> NONE]
  /\ fail_run = [u \in AllUrls |-> 0]

\* The pass of the while loop at the next clock value.
OneTick == now = StartTime /\ Tick

TickNext ==
  \/ OneTick
  \/ CheckMirror
  \/ JudgeGroup

TickSpec == TickInit /\ [][TickNext]_vars

\* ------------------------------------------------------------------------
\* Reading the judgment just made
\* ------------------------------------------------------------------------

\* The positions of the mirrors judge_mirror was called for in the step
\* just taken (none when the step was no judgment, or the gate was shut).
JudgedNow == IF lastJ.called THEN 1..Len(lastJ.explanations) ELSE {}

MirrorOf(i) == mirrors[lastJ.explanations[i].repo_url]
VerdictOf(i) == lastJ.explanations[i].verdict
AuthorityFor(i) == authority_of(mirror_groups, mirrors, MirrorOf(i).repo_name)

AuthorityUnknown(i) ==
  AuthorityFor(i) = <<>> \/ AuthorityFor(i)[1].last_sync_time = NONE

\* Zero consecutive failures and a sync time on both sides.
KnownSyncTimes(i) ==
  /\ MirrorOf(i).consecutive_check_failures = 0
  /\ MirrorOf(i).last_sync_time # NONE
  /\ ~ AuthorityUnknown(i)

StalenessOf(i) == AuthorityFor(i)[1].last_sync_time - MirrorOf(i).last_sync_time
AuthorityAgeOf(i) == now - AuthorityFor(i)[1].last_sync_time

\* The gh calls of the judgment just made.
DidOp(name) ==
  /\ lastJ.called
  /\ \E k \in 1..Len(lastJ.ops) : lastJ.ops[k].op = name
OpSucceeded(name) ==
  /\ lastJ.called
  /\ \E k \in 1..Len(lastJ.ops) : lastJ.ops[k].op = name /\ lastJ.ops[k].ok
TrackerAnswered ==
  /\ lastJ.called
  /\ \A k \in 1..Len(lastJ.ops) : lastJ.ops[k].ok

\* The group judge_mirror_group was called for.
JudgedGroup ==
  mirror_groups[CHOOSE g \in 1..Len(mirror_groups) :
                  mirror_groups[g].domain = lastJ.domain]

\* ------------------------------------------------------------------------
\* The health judge (JudgeSpec)
\* ------------------------------------------------------------------------

\* C5: a judged mirror with consecutive_check_failures >= CONSECUTIVE_FAIL_LIMIT
\* is Unhealthy, whatever its last_sync_time, its authority, the staleness
\* and the authority's age; exactly CONSECUTIVE_FAIL_LIMIT failures suffice.
C5_FailLimitIsUnhealthy ==
  \A i \in JudgedNow :
     MirrorOf(i).consecutive_check_failures >= CONSECUTIVE_FAIL_LIMIT
       => VerdictOf(i).healthy = "False"

\* Exactly CONSECUTIVE_FAIL_LIMIT failures on a mirror whose sync time is
\* within the freshness target of its authority: judged Unhealthy.
C5_Witness ==
  \E i \in JudgedNow :
     /\ MirrorOf(i).consecutive_check_failures = CONSECUTIVE_FAIL_LIMIT
     /\ MirrorOf(i).last_sync_time # NONE
     /\ ~ AuthorityUnknown(i)
     /\ StalenessOf(i) <= FRESHNESS_TARGET
     /\ VerdictOf(i).healthy = "False"

\* C6: a judged mirror with 0 < consecutive_check_failures <
\* CONSECUTIVE_FAIL_LIMIT is Indeterminate, never Healthy and never Unhealthy,
\* whatever its staleness.
C6_FailingIsIndeterminate ==
  \A i \in JudgedNow :
     ( /\ 0 < MirrorOf(i).consecutive_check_failures
       /\ MirrorOf(i).consecutive_check_failures < CONSECUTIVE_FAIL_LIMIT )
       => VerdictOf(i).healthy = "None"

\* One failure short of the limit, with a sync time far beyond the staleness
\* limit and an authority past its grace period: Indeterminate.
C6_Witness ==
  \E i \in JudgedNow :
     /\ MirrorOf(i).consecutive_check_failures = CONSECUTIVE_FAIL_LIMIT - 1
     /\ MirrorOf(i).last_sync_time # NONE
     /\ ~ AuthorityUnknown(i)
     /\ StalenessOf(i) > STALENESS_LIMIT
     /\ AuthorityAgeOf(i) >= AUTHORITY_UPDATE_GRACE_PERIOD
     /\ VerdictOf(i).healthy = "None"

\* C7: with zero failures and both sync times known, staleness >
\* STALENESS_LIMIT gives Indeterminate while the authority's age is below
\* AUTHORITY_UPDATE_GRACE_PERIOD and Unhealthy from that age on.
C7_StaleGraceThenUnhealthy ==
  \A i \in JudgedNow :
     (KnownSyncTimes(i) /\ StalenessOf(i) > STALENESS_LIMIT)
       => IF AuthorityAgeOf(i) < AUTHORITY_UPDATE_GRACE_PERIOD
            THEN VerdictOf(i).healthy = "None"
            ELSE VerdictOf(i).healthy = "False"

\* The authority's age is exactly the grace period: Unhealthy.
C7_Witness ==
  \E i \in JudgedNow :
     /\ KnownSyncTimes(i)
     /\ StalenessOf(i) > STALENESS_LIMIT
     /\ AuthorityAgeOf(i) = AUTHORITY_UPDATE_GRACE_PERIOD
     /\ VerdictOf(i).healthy = "False"

\* C8: with zero failures and both sync times known, FRESHNESS_TARGET <
\* staleness <= STALENESS_LIMIT is Healthy with the below-target caveat and
\* staleness <= FRESHNESS_TARGET is Healthy without it, at every age of the
\* authority.
C8_HealthyBands ==
  \A i \in JudgedNow :
     KnownSyncTimes(i) =>
       /\ (StalenessOf(i) > FRESHNESS_TARGET /\ StalenessOf(i) <= STALENESS_LIMIT)
            => VerdictOf(i) = Verdict("True", "below_target")
       /\ StalenessOf(i) <= FRESHNESS_TARGET
            => VerdictOf(i) = Verdict("True", "good")

\* Staleness exactly STALENESS_LIMIT, the authority past its grace period:
\* Healthy with the caveat.
C8_Witness ==
  \E i \in JudgedNow :
     /\ KnownSyncTimes(i)
     /\ StalenessOf(i) = STALENESS_LIMIT
     /\ AuthorityAgeOf(i) >= AUTHORITY_UPDATE_GRACE_PERIOD
     /\ VerdictOf(i) = Verdict("True", "below_target")

\* C9: with zero failures, a mirror without last_sync_time, without an
\* authority for its repo_name, or whose authority has no last_sync_time is
\* Indeterminate; and a judgment in which no mirror has reached the failure
\* limit and no mirror's authority has a sync time creates no issue.
C9_UnknownIsIndeterminate ==
  /\ \A i \in JudgedNow :
        ( /\ MirrorOf(i).consecutive_check_failures = 0
          /\ (MirrorOf(i).last_sync_time = NONE \/ AuthorityUnknown(i)) )
          => VerdictOf(i).healthy = "None"
  /\ ( \A i \in JudgedNow :
          /\ AuthorityUnknown(i)
          /\ MirrorOf(i).consecutive_check_failures < CONSECUTIVE_FAIL_LIMIT )
       => ~ DidOp("create")

\* A checked mirror far older than anything, an authority that exists but
\* was never fetched successfully, the tracker asked and holding no issue:
\* Indeterminate, and nothing is created.
C9_Witness ==
  /\ \E i \in JudgedNow :
        /\ MirrorOf(i).consecutive_check_failures = 0
        /\ MirrorOf(i).last_sync_time # NONE
        /\ AuthorityFor(i) # <<>>
        /\ AuthorityFor(i)[1].last_sync_time = NONE
        /\ VerdictOf(i).healthy = "None"
  /\ OpSucceeded("search")
  /\ ~ lastJ.found
  /\ ~ DidOp("create")

\* C10: when a mirror of the group (authoritative or not) has no last_check
\* or one older than 2 * CHECK_INTERVAL, judge_mirror is called for no
\* mirror of the group and no gh call is made for it.
C10_RecencyGate ==
  ( /\ lastJ.called
    /\ \E k \in 1..Len(JudgedGroup.mirrors) :
         LET last_check == mirrors[JudgedGroup.mirrors[k].repo_url].last_check
         IN  last_check = NONE \/ now - last_check > 2 * CHECK_INTERVAL )
    => (lastJ.explanations = <<>> /\ lastJ.ops = <<>>)

\* The main mirror was checked in this tick and has reached the failure
\* limit, its sibling's last check is older than 2 * CHECK_INTERVAL: nothing
\* is judged, nothing is asked of the tracker.
C10_Witness ==
  /\ lastJ.called
  /\ registry = TopoBoth
  /\ mirrors[URL_MIRROR_MAIN].last_check = now
  /\ mirrors[URL_MIRROR_MAIN].consecutive_check_failures >= CONSECUTIVE_FAIL_LIMIT
  /\ mirrors[URL_MIRROR_ROOT].last_check # NONE
  /\ now - mirrors[URL_MIRROR_ROOT].last_check > 2 * CHECK_INTERVAL
  /\ ~ log_only
  /\ lastJ.explanations = <<>>
  /\ lastJ.ops = <<>>

\* ------------------------------------------------------------------------
\* What one judgment asks of the tracker (JudgeSpec)
\* ------------------------------------------------------------------------

\* The names of the gh calls of the judgment just made, in call order.
OpsDone ==
  IF lastJ.called THEN [k \in 1..Len(lastJ.ops) |-> lastJ.ops[k].op] ELSE <<>>
CountOp(name) == Cardinality({k \in 1..Len(OpsDone) : OpsDone[k] = name})

\* The gate passed and the group has a mirror to judge.
GroupJudged ==
  /\ lastJ.called
  /\ lastJ.gate
  /\ lastJ.explanations # <<>>

\* C11: an issue is created only by a judgment that found no open issue for
\* the domain and in which at least one judged mirror is Unhealthy; a
\* judgment whose verdicts are all Healthy (below target or not) or
\* Indeterminate creates none.
C11_CreateOnlyWhenRedAndNoneOpen ==
  /\ DidOp("create") =>
       /\ GroupJudged
       /\ ~ lastJ.found
       /\ \E i \in JudgedNow : VerdictOf(i).healthy = "False"
  /\ ( GroupJudged /\ \A i \in JudgedNow :
                         VerdictOf(i).healthy \in {"True", "None"} )
       => CountOp("create") = 0

\* Two mirrors judged, one Unhealthy and one Indeterminate, no open issue:
\* the issue is created.
C11_Witness ==
  /\ GroupJudged
  /\ \E i \in JudgedNow : VerdictOf(i).healthy = "False"
  /\ \E i \in JudgedNow : VerdictOf(i).healthy = "None"
  /\ ~ lastJ.found
  /\ OpsDone = <<"search", "create">>
  /\ TrackerAnswered
  /\ issues[issue_title(lastJ.domain)] = 1

\* C12: when a group is judged and the close path is not taken (not
\* all_green, or auto-close off), an open issue the search finds gets its
\* body updated exactly once by that judgment, whatever the verdicts, and
\* nothing is created or closed.
C12_OpenIssueUpdatedOnce ==
  ( /\ GroupJudged
    /\ ~ (lastJ.all_green /\ auto_close)
    /\ ~ log_only
    /\ lastJ.found
    /\ OpSucceeded("search") )
  => /\ CountOp("update") = 1
     /\ CountOp("create") = 0
     /\ CountOp("close") = 0
     /\ OpsDone = <<"search", "update">>

\* Indeterminate verdicts only, an open issue: its body is updated.
C12_Witness ==
  /\ GroupJudged
  /\ \A i \in JudgedNow : VerdictOf(i).healthy = "None"
  /\ ~ auto_close
  /\ lastJ.found
  /\ OpsDone = <<"search", "update">>
  /\ TrackerAnswered
  /\ issues[issue_title(lastJ.domain)] = 1

\* C13: when a group is judged all_green and auto-close is on, an open
\* issue has its body updated first and is closed afterwards, the close
\* coming only after an update that went through; with no open issue nothing
\* is created, updated or closed.
C13_UpdateThenClose ==
  ( /\ GroupJudged
    /\ lastJ.all_green
    /\ auto_close
    /\ ~ log_only
    /\ OpSucceeded("search") )
  => IF lastJ.found
       THEN /\ Len(OpsDone) >= 2
            /\ OpsDone[2] = "update"
            /\ CountOp("create") = 0
            /\ IF lastJ.ops[2].ok
                 THEN OpsDone = <<"search", "update", "close">>
                 ELSE OpsDone = <<"search", "update">>
            /\ TrackerAnswered => issues[issue_title(lastJ.domain)] = 0
       ELSE OpsDone = <<"search">>

\* All mirrors Healthy, auto-close on, an open issue: updated, then closed.
C13_Witness ==
  /\ GroupJudged
  /\ lastJ.all_green
  /\ auto_close
  /\ lastJ.found
  /\ OpsDone = <<"search", "update", "close">>
  /\ TrackerAnswered
  /\ issues[issue_title(lastJ.domain)] = 0

\* ------------------------------------------------------------------------
\* Alerts and their retraction over runs of the process (Spec)
\* ------------------------------------------------------------------------

\* C1: a mirror that keeps being checked successfully while its staleness
\* stays above STALENESS_LIMIT is judged Unhealthy: once its unbroken run of
\* stale judgments has lasted AUTHORITY_UPDATE_GRACE_PERIOD, a judgment of
\* it is Unhealthy.
C1_StaleIsJudgedUnhealthy ==
  \A i \in JudgedNow :
     LET since == stale_since[lastJ.explanations[i].repo_url]
     IN  ( /\ KnownSyncTimes(i)
           /\ StalenessOf(i) > STALENESS_LIMIT
           /\ since # NONE
           /\ now - since >= AUTHORITY_UPDATE_GRACE_PERIOD )
           => VerdictOf(i).healthy = "False"

\* C2: while the process has not been killed, a mirror is judged Unhealthy
\* for unavailability exactly when CONSECUTIVE_FAIL_LIMIT or more of its
\* checks in a row have failed, epoch reloads in between included; and then
\* an issue is created if log-only is off, no issue is open for the domain
\* and the tracker answers.
C2_AvailabilityAlert ==
  restarts = 0 =>
    \A i \in JudgedNow :
       LET failed == fail_run[lastJ.explanations[i].repo_url]
       IN  /\ (VerdictOf(i) = Verdict("False", "unavailable"))
                <=> (failed >= CONSECUTIVE_FAIL_LIMIT)
           /\ ( /\ failed >= CONSECUTIVE_FAIL_LIMIT
                /\ ~ log_only
                /\ ~ lastJ.found
                /\ TrackerAnswered )
                => OpSucceeded("create")

\* A mirror that never answered reaches the limit in the epoch after the
\* one of its first failure, is judged Unhealthy at that check's judgment,
\* and the issue is created.
C2_Witness ==
  /\ restarts = 0
  /\ epoch_start > StartTime
  /\ \E i \in JudgedNow :
        /\ fail_run[lastJ.explanations[i].repo_url] = CONSECUTIVE_FAIL_LIMIT
        /\ MirrorOf(i).consecutive_check_failures = CONSECUTIVE_FAIL_LIMIT
        /\ MirrorOf(i).last_successful_check = NONE
        /\ MirrorOf(i).last_check = now
        /\ VerdictOf(i) = Verdict("False", "unavailable")
  /\ OpSucceeded("create")
  /\ issues[issue_title(lastJ.domain)] = 1

\* C3: the engine calls create for a domain only when its search found no
\* open issue with the domain's title, so no title ever has two open issues.
C3_NoSecondIssue ==
  /\ \A title \in Titles : issues[title] <= 1
  /\ DidOp("create") => ~ lastJ.found

\* After a reload, a group with an Unhealthy mirror is judged while its
\* issue is open: the issue is updated, none is created.
C3_Witness ==
  /\ epoch_start > StartTime
  /\ lastJ.called
  /\ lastJ.any_red
  /\ lastJ.found
  /\ OpSucceeded("update")
  /\ ~ DidOp("create")
  /\ issues[issue_title(lastJ.domain)] = 1

\* C4 (as claimed): a judgment that finds every judged mirror Healthy while
\* the domain's issue is open closes the issue.
C4_AllGreenCloses ==
  ( /\ lastJ.called
    /\ lastJ.all_green
    /\ lastJ.found
    /\ ~ log_only
    /\ TrackerAnswered )
    => (OpSucceeded("close") /\ issues[issue_title(lastJ.domain)] = 0)

\* C4 (amended): as configured (AUTO_CLOSE = False) no judgment closes an
\* issue; a judgment that finds every judged mirror Healthy while the
\* domain's issue is open updates the issue and leaves it open.
C4_AllGreenUpdatesOnly ==
  /\ ~ DidOp("close")
  /\ ( /\ lastJ.called
       /\ lastJ.all_green
       /\ lastJ.found
       /\ ~ log_only
       /\ TrackerAnswered )
       => (OpSucceeded("update") /\ issues[issue_title(lastJ.domain)] = 1)

\* An all-Healthy judgment of a group whose issue is open.
C4_Witness ==
  /\ lastJ.called
  /\ lastJ.all_green
  /\ lastJ.found
  /\ OpSucceeded("update")
  /\ issues[issue_title(lastJ.domain)] = 1

\* ------------------------------------------------------------------------
\* Failures of the tracker and of the fetch
\* ------------------------------------------------------------------------

\* C14: a tracker operation that fails or returns unusable output during a
\* group judgment is swallowed: the process does not die, the cache write
\* that follows the judgment has happened (the snapshot is the state of the
\* mirrors), and the loop is on its way to the later groups.
C14_TrackerFailuresAreSwallowed ==
  ( lastJ.called /\ (lastJ.escaped \/ ~ TrackerAnswered) )
  => /\ pc \in {"loop", "check", "judge"}
     /\ cache.kind = "snapshot"
     /\ cache.mirrors = mirrors

\* The check just made got a 200 response; its text, line by line.
Parsed == lastC.called /\ lastC.response.kind = "response"
                      /\ lastC.response.status_code = 200
TextOf == lastC.response.text
DateLines == {k \in 1..Len(TextOf) : TextOf[k].tag = "Date:"}
HasWeekday(k) == Len(TextOf[k].pieces) >= 2
InUTC(k) == TextOf[k].pieces[Len(TextOf[k].pieces)].zone = " UTC"
StampOf(k) == TextOf[k].pieces[Len(TextOf[k].pieces)].stamp

\* C15: every check ends in exactly one success or failure transition of
\* the mirror, whatever the fetch ended in and whatever the body holds (no
\* Date: line, a Date: line without the weekday part, unparseable fields,
\* no UTC): no exception leaves check_and_update_mirror, the mirror's
\* last_check is this check, and the loop goes on.
C15_EveryCheckIsATransition ==
  lastC.called =>
    /\ lastC.end \in {"fail", "succeed"}
    /\ pc \in {"check", "judge"}
    /\ mirrors[lastC.repo_url].last_check = now
    /\ lastC.end = "fail" <=> mirrors[lastC.repo_url].consecutive_check_failures > 0

\* C16 as stated: the first line that begins with Date: decides.  In UTC
\* and well formed, the check succeeds with the instant of that line; not
\* in UTC, the check fails whatever the later lines hold.
C16_FirstDateLineDecides ==
  ( Parsed /\ DateLines # {} ) =>
    LET first == Min(DateLines)
    IN  /\ ( HasWeekday(first) /\ InUTC(first) /\ StampOf(first) # MALFORMED )
            => /\ lastC.end = "succeed"
               /\ mirrors[lastC.repo_url].last_sync_time = StampOf(first)
        /\ ~ InUTC(first) => lastC.end = "fail"

\* The Date: lines the scan stops at: without the weekday part, or in UTC.
Deciding == {k \in DateLines : ~ HasWeekday(k) \/ InUTC(k)}

\* C16: Date: lines that are not in UTC are passed over, and the first
\* other Date: line decides.  In UTC and well formed, the check succeeds
\* with the instant of that line; in UTC with fields that do not parse, it
\* fails; when every Date: line was passed over, or there is none, it
\* fails.
C16_FirstUtcDateLineDecides ==
  Parsed =>
    IF Deciding = {} THEN lastC.end = "fail"
    ELSE LET k == Min(Deciding)
         IN  IF ~ HasWeekday(k) THEN lastC.end = "raise"
             ELSE IF StampOf(k) = MALFORMED THEN lastC.end = "fail"
             ELSE /\ lastC.end = "succeed"
                  /\ lastC.sync_time = StampOf(k)
                  /\ mirrors[lastC.repo_url].last_sync_time = StampOf(k)
                  /\ mirrors[lastC.repo_url].last_successful_check = now
                  /\ mirrors[lastC.repo_url].consecutive_check_failures = 0

\* A Date: line in another zone, then a Date: line in UTC: the check
\* succeeds with the instant of the second line.
C16_Witness ==
  /\ Parsed
  /\ Len(TextOf) = 2
  /\ DateLines = {1, 2}
  /\ HasWeekday(1) /\ ~ InUTC(1)
  /\ HasWeekday(2) /\ InUTC(2) /\ StampOf(2) = now
  /\ lastC.end = "succeed"
  /\ mirrors[lastC.repo_url].last_sync_time = now
  /\ pc = "judge"

\* ------------------------------------------------------------------------
\* The cache: merge, unusable files, snapshots, epochs
\* ------------------------------------------------------------------------

\* The epoch has loaded its topology with a cache of an earlier run.
Merged == pc = "loop" /\ cache.kind = "snapshot"

NoHistory(mirror) ==
  /\ mirror.consecutive_check_failures = 0
  /\ mirror.last_check = NONE
  /\ mirror.last_successful_check = NONE
  /\ mirror.last_sync_time = NONE

SameHistory(mirror, other) ==
  /\ mirror.consecutive_check_failures = other.consecutive_check_failures
  /\ mirror.last_check = other.last_check
  /\ mirror.last_successful_check = other.last_successful_check
  /\ mirror.last_sync_time = other.last_sync_time

\* The next_check a Mirror gets at this load: the epoch for an authority,
\* the jittered initial delay from now for the others.
FreshNextChecks(u) ==
  IF is_authoritative(u) THEN {EPOCH}
  ELSE {now + INITIAL_CHECK_DELAY + jitter : jitter \in {-1, 0}}

\* C17: after the merge the topology holds exactly the mirrors of the fresh
\* topology; a mirror whose url is in the cache has the cached failure
\* count, last_check, last_successful_check and last_sync_time; a mirror
\* whose url is not has zero failures and no history; urls only in the cache
\* do not appear; every next_check is the one computed at this load, not
\* the cached one.
C17_MergeKeepsHistoryByUrl ==
  Merged =>
    /\ DOMAIN mirrors = UrlsOf(registry)
    /\ \A u \in DOMAIN mirrors :
         /\ mirrors[u].repo_url = u
         /\ IF u \in DOMAIN cache.mirrors
              THEN SameHistory(mirrors[u], cache.mirrors[u])
              ELSE NoHistory(mirrors[u])
         /\ mirrors[u].next_check \in FreshNextChecks(u)

\* The cache knows the root mirror, which the topology no longer has, and
\* the main mirror with failures and a later next_check; the topology has
\* the main mirror with the cached failures and a fresh next_check.
C17_Witness ==
  /\ Merged
  /\ registry = TopoMain
  /\ URL_MIRROR_ROOT \in DOMAIN cache.mirrors
  /\ URL_MIRROR_ROOT \notin DOMAIN mirrors
  /\ cache.mirrors[URL_MIRROR_MAIN].consecutive_check_failures = CONSECUTIVE_FAIL_LIMIT
  /\ mirrors[URL_MIRROR_MAIN].consecutive_check_failures = CONSECUTIVE_FAIL_LIMIT
  /\ mirrors[URL_MIRROR_MAIN].last_check = cache.mirrors[URL_MIRROR_MAIN].last_check
  /\ mirrors[URL_MIRROR_MAIN].last_check # NONE
  /\ cache.mirrors[URL_MIRROR_MAIN].next_check > mirrors[URL_MIRROR_MAIN].next_check

\* C18: whatever the cache file is when it is not a snapshot (absent, empty,
\* cut short by a torn write, not a pickle, the pickle of another object),
\* loading does not fail: the epoch starts monitoring the fresh topology,
\* every mirror without history.
C18_UnusableCacheIsAbsent ==
  ( pc # "load" /\ cache.kind # "snapshot" ) =>
    /\ pc = "loop"
    /\ DOMAIN mirrors = UrlsOf(registry)
    /\ \A u \in DOMAIN mirrors : NoHistory(mirrors[u])

\* The step just taken ended a tick in which a mirror was checked: the last
\* due group was judged and the for loops are through.
TickWithChecksEnded == lastJ.called /\ pc = "loop"

\* The step just taken ended an epoch of this process: the Mirror objects
\* of the epoch are still there and main() is about to load again.
EpochEnded == pc = "load" /\ DOMAIN mirrors # {}

\* C19: at the end of every tick in which a mirror was checked, and at the
\* end of every epoch, the persisted snapshot holds the current state of
\* every mirror of the topology.
C19_SnapshotIsCurrent ==
  ( TickWithChecksEnded \/ EpochEnded ) =>
    /\ cache.kind = "snapshot"
    /\ DOMAIN cache.mirrors = UrlsOf(mirror_groups)
    /\ \A u \in UrlsOf(mirror_groups) : cache.mirrors[u] = mirrors[u]

\* A tick in which the main mirror's check failed has ended, after an
\* earlier snapshot was written: the snapshot holds the failure.
C19_Witness ==
  /\ TickWithChecksEnded
  /\ mirrors[URL_MIRROR_MAIN].last_check = now
  /\ mirrors[URL_MIRROR_MAIN].consecutive_check_failures = CONSECUTIVE_FAIL_LIMIT
  /\ cache.kind = "snapshot"
  /\ cache.mirrors[URL_MIRROR_MAIN].last_check = now
  /\ cache.mirrors[URL_MIRROR_MAIN].consecutive_check_failures = CONSECUTIVE_FAIL_LIMIT

\* C20: over the reload at an epoch boundary, every mirror whose url is in
\* the topology before and after keeps its consecutive_check_failures,
\* last_check, last_successful_check and last_sync_time; in a process that
\* was never killed the failure count therefore stays the length of the
\* mirror's run of failed checks.
C20_ContinuityAcrossEpochs ==
  [][ ( EpochEnded /\ pc' = "loop" ) =>
        /\ \A u \in DOMAIN mirrors \cap DOMAIN mirrors' :
             SameHistory(mirrors'[u], mirrors[u])
        /\ restarts = 0 =>
             \A u \in DOMAIN mirrors' :
                mirrors'[u].consecutive_check_failures = fail_run'[u] ]_vars

\* In the second epoch of a process that was never killed, the main mirror
\* fails a check and its failure count goes on from the first epoch's.
C20_Witness ==
  /\ pc \in {"check", "judge", "loop"}
  /\ restarts = 0
  /\ epoch_start > StartTime
  /\ mirrors[URL_MIRROR_MAIN].last_check > epoch_start
  /\ mirrors[URL_MIRROR_MAIN].consecutive_check_failures > 1
  /\ mirrors[URL_MIRROR_MAIN].consecutive_check_failures = fail_run[URL_MIRROR_MAIN]

\* ------------------------------------------------------------------------
\* The process end to end
\* ------------------------------------------------------------------------

\* Mirror i of the judgment just made was checked in this tick and the
\* check succeeded.
CheckedNowWithSuccess(i) ==
  /\ MirrorOf(i).last_check = now
  /\ MirrorOf(i).last_successful_check = now

\* C21: the authority has been checked successfully with sync time T, every
\* mirror of the group has been checked recently, and a mirror of the group
\* has just been checked successfully with a sync time more than
\* STALENESS_LIMIT before T, at a time when T is at least
\* AUTHORITY_UPDATE_GRACE_PERIOD old: the judgment that follows the check
\* finds the mirror Unhealthy, and with log-only off and no open issue found
\* it creates the issue, once.
C21_StaleMirrorAlert ==
  \A i \in JudgedNow :
     ( /\ GroupJudged
       /\ CheckedNowWithSuccess(i)
       /\ KnownSyncTimes(i)
       /\ StalenessOf(i) > STALENESS_LIMIT
       /\ AuthorityAgeOf(i) >= AUTHORITY_UPDATE_GRACE_PERIOD )
     => /\ VerdictOf(i) = Verdict("False", "stale")
        /\ lastJ.any_red
        /\ ( ~ log_only /\ ~ lastJ.found /\ OpSucceeded("search") )
           => /\ OpsDone = <<"search", "create">>
              /\ OpSucceeded("create") => issues[issue_title(lastJ.domain)] = 1

\* From empty history: the authority's sync time is a grace period old when
\* the mirror's first check gives a sync time from long before; the
\* judgment after the mirror's check created the issue.
C21_Witness ==
  /\ restarts = 0
  /\ epoch_start = StartTime
  /\ now <= StartTime + 2
  /\ GroupJudged
  /\ \E i \in JudgedNow :
       /\ CheckedNowWithSuccess(i)
       /\ fail_run[lastJ.explanations[i].repo_url] = 0
       /\ KnownSyncTimes(i)
       /\ StalenessOf(i) > STALENESS_LIMIT
       /\ AuthorityAgeOf(i) = AUTHORITY_UPDATE_GRACE_PERIOD
       /\ VerdictOf(i) = Verdict("False", "stale")
  /\ OpsDone = <<"search", "create">>
  /\ TrackerAnswered
  /\ ~ lastJ.escaped
  /\ issues[issue_title(lastJ.domain)] = 1

\* What judge_mirror_group decides in normal mode, the tracker answering,
\* from the state the step starts in.
NormalJudgments ==
  {judge_mirror_group(mirror_groups[gi], mirror_groups, mirrors, now, issues,
                      FALSE, auto_close, gh_fail) :
     gh_fail \in GhFailures \ {"create_no_output"}}

\* C22: in log-only mode no judgment makes a tracker call, so nothing is
\* created, updated or closed, and the tracker is as it was; the judgment
\* decides what it decides in normal mode (gate, verdicts, any_red,
\* all_green), the cache is written after it, and a check makes the
\* transition the response gives in normal mode.
C22_LogOnlyWritesNothing ==
  [][ log_only =>
        /\ lastJ'.called =>
             /\ lastJ'.ops = <<>>
             /\ issues' = issues
             /\ \E j \in NormalJudgments :
                  /\ lastJ'.gate = j.gate
                  /\ lastJ'.explanations = j.explanations
                  /\ lastJ'.any_red = j.any_red
                  /\ lastJ'.all_green = j.all_green
             /\ mirrors' = mirrors
             /\ cache'.kind = "snapshot"
             /\ cache'.mirrors = mirrors
             /\ pc' \in {"loop", "check"}
        /\ lastC'.called =>
             \E random2 \in RandomSamples,
                response \in ServedToProcess(CurrentUrl, now) :
                mirrors' = [mirrors EXCEPT ![CurrentUrl] =
                              check_and_update_mirror(@, response, random2, now).mirror]
     ]_vars

\* Log-only, the main mirror at the failure limit, no open issue: judged
\* Unhealthy, nothing asked of the tracker, the snapshot written.
C22_Witness ==
  /\ log_only
  /\ GroupJudged
  /\ lastJ.any_red
  /\ \A t \in Titles : issues[t] = 0
  /\ lastJ.ops = <<>>
  /\ mirrors[URL_MIRROR_MAIN].consecutive_check_failures >= CONSECUTIVE_FAIL_LIMIT
  /\ cache.kind = "snapshot"
  /\ cache.mirrors = mirrors

RepoNames == {"main", "root"}

\* C23: when the loaded topology has two authoritative mirrors of one
\* repo_name the process halts in extract_authoritative_mirrors: no mirror
\* is checked or judged, the tracker is not called and the cache is not
\* written in that epoch.  Otherwise the authority map of the epoch holds,
\* for each repo_name, the one authoritative Mirror of that name, or none.
C23_TwoAuthoritiesHalt ==
  /\ ~ authorities_unique(registry) =>
       /\ pc \in {"load", "halted"}
       /\ cache = NoCache
       /\ ~ lastJ.called
       /\ ~ lastC.called
       /\ \A t \in Titles : issues[t] = 0
       /\ \A u \in DOMAIN mirrors : NoHistory(mirrors[u])
  /\ pc \in {"loop", "check", "judge"} =>
       \A repo_name \in RepoNames :
          LET authoritative ==
                {u \in DOMAIN mirrors :
                   is_authoritative(u) /\ mirrors[u].repo_name = repo_name}
          IN  /\ Cardinality(authoritative) <= 1
              /\ authoritative = {} =>
                   authority_of(mirror_groups, mirrors, repo_name) = <<>>
              /\ \A u \in authoritative :
                   authority_of(mirror_groups, mirrors, repo_name) = << mirrors[u] >>

\* Two authoritative mirrors of main were loaded and the process halted.
C23_Witness ==
  /\ pc = "halted"
  /\ registry = TopoTwoAuthorities
  /\ DOMAIN mirrors = {URL_AUTH_MAIN, URL_AUTH_COPY}
  /\ mirrors[URL_AUTH_MAIN].repo_name = mirrors[URL_AUTH_COPY].repo_name
  /\ cache = NoCache

\* The latest next_check a load at time t gives a mirror.
BootstrapLimit(t) == next_check_time(INITIAL_CHECK_DELAY, 1, t)

\* A mirror has had a transition since the load.  The load left the
\* next_check of an authoritative mirror at time zero and that of another
\* mirror within the bootstrap delay of the load; a transition, which comes
\* no sooner than that next_check, moves it a check interval ahead.
CheckedThisEpoch(u) ==
  IF is_authoritative(u) THEN mirrors[u].next_check # EPOCH
  ELSE mirrors[u].next_check > BootstrapLimit(epoch_start)

\* C24: in every epoch, when a non-authoritative mirror is judged every
\* authoritative mirror of the topology has been checked in that epoch.
C24_AuthoritiesCheckedFirst ==
  JudgedNow # {} =>
    \A u \in DOMAIN mirrors : is_authoritative(u) => CheckedThisEpoch(u)

\* The non-authoritative mirrors of the group just judged, in list order.
RECURSIVE Secondaries(_)
Secondaries(entries) ==
  IF entries = <<>> THEN <<>>
  ELSE IF is_authoritative(Head(entries).repo_url) THEN Secondaries(Tail(entries))
  ELSE << Head(entries).repo_url >> \o Secondaries(Tail(entries))

\* C25: judge_mirror is called for the non-authoritative mirrors of the
\* judged group and for no authoritative one, so its assertion never fires;
\* a group of authoritative mirrors alone gets no verdict and no tracker
\* call, whatever the failures or the staleness of its mirrors.
C25_AuthoritiesAreNeverJudged ==
  lastJ.called =>
    /\ \A i \in JudgedNow :
          /\ ~ is_authoritative(lastJ.explanations[i].repo_url)
          /\ VerdictOf(i).healthy # "AssertionError"
    /\ lastJ.gate =>
          [i \in JudgedNow |-> lastJ.explanations[i].repo_url]
            = Secondaries(JudgedGroup.mirrors)
    /\ Secondaries(JudgedGroup.mirrors) = <<>> =>
          /\ lastJ.explanations = <<>>
          /\ lastJ.ops = <<>>
          /\ ~ lastJ.any_red

\* A group is judged in which an authority beyond the failure limit, which
\* has never synced, stands beside a mirror: the mirror alone gets a verdict.
C25_Witness ==
  /\ lastJ.called
  /\ lastJ.gate
  /\ JudgedGroup = GroupMirrorShared
  /\ mirrors[URL_AUTH_ROOT].consecutive_check_failures > CONSECUTIVE_FAIL_LIMIT
  /\ mirrors[URL_AUTH_ROOT].last_sync_time = NONE
  /\ Len(lastJ.explanations) = 1
  /\ lastJ.explanations[1].repo_url = URL_MIRROR_MAIN

\* ------------------------------------------------------------------------
\* The two transitions (CheckSpec)
\* ------------------------------------------------------------------------

\* A step is a check of mirror u that ended as `end`.
CheckStep(u, end) ==
  /\ lastC'.called
  /\ lastC'.repo_url = u
  /\ lastC'.end = end

\* The clock values that instants of [t + 0.95 * CHECK_INTERVAL,
\* t + 1.05 * CHECK_INTERVAL) fall in: 1 - CHECK_JITTER_FRACTION is
\* (CHECK_JITTER_DIVISOR - 1) / CHECK_JITTER_DIVISOR.
JitteredInterval(t) ==
  { c \in t..(t + 2 * CHECK_INTERVAL) :
      /\ ((CHECK_JITTER_DIVISOR - 1) * CHECK_INTERVAL) \div CHECK_JITTER_DIVISOR
            <= c - t
      /\ CHECK_JITTER_DIVISOR * (c - t) < (CHECK_JITTER_DIVISOR + 1) * CHECK_INTERVAL }

TransitionOf(u) == CheckStep(u, "fail") \/ CheckStep(u, "succeed")

\* The step is the load of an epoch.
LoadStep == pc = "load" /\ pc' # "load"

\* The step leaves the four history fields of mirror u as they were.
HistoryKept(u) ==
  /\ mirrors'[u].consecutive_check_failures = mirrors[u].consecutive_check_failures
  /\ mirrors'[u].last_check = mirrors[u].last_check
  /\ mirrors'[u].last_successful_check = mirrors[u].last_successful_check
  /\ mirrors'[u].last_sync_time = mirrors[u].last_sync_time

\* C28 as stated: a step that is no transition of mirror u changes none of
\* u's five monitoring-state fields, the load and the epoch start-up
\* included.
C28_OnlyTransitionsWrite ==
  [][ \A u \in DOMAIN mirrors \cap DOMAIN mirrors' :
        ~ TransitionOf(u) =>
          /\ HistoryKept(u)
          /\ mirrors'[u].next_check = mirrors[u].next_check ]_vars

\* C28: in a process that is not killed, the failure count, last_check,
\* last_successful_check and last_sync_time of a mirror change in its own
\* transitions only, the reload at the start of an epoch carrying them over;
\* next_check changes in the mirror's transitions and in the load, which
\* sets it to the bootstrap delay from the load, and to time zero for an
\* authoritative mirror.  Judgments, tracker calls, cache writes and the
\* checks of other mirrors change none of the five.
C28_TransitionsAndLoadWrite ==
  [][ \A u \in DOMAIN mirrors \cap DOMAIN mirrors' :
        /\ ~ TransitionOf(u) => HistoryKept(u)
        /\ ( ~ TransitionOf(u) /\ ~ LoadStep ) =>
              mirrors'[u].next_check = mirrors[u].next_check
        /\ LoadStep =>
              mirrors'[u].next_check \in
                IF is_authoritative(u) THEN {EPOCH}
                ELSE {next_check_time(INITIAL_CHECK_DELAY, random2, now) :
                        random2 \in RandomSamples} ]_vars

\* A later epoch has just been loaded: the main mirror's failures and the
\* authority's sync time came over from the epoch before, and both have a
\* next_check that the load gave them.
C28_Witness ==
  /\ pc = "loop"
  /\ tick_now = NONE
  /\ epoch_start > StartTime
  /\ mirrors[URL_MIRROR_MAIN].consecutive_check_failures > 0
  /\ mirrors[URL_MIRROR_MAIN].last_check < epoch_start
  /\ mirrors[URL_MIRROR_MAIN].next_check >= epoch_start
  /\ mirrors[URL_AUTH_MAIN].last_sync_time # NONE
  /\ mirrors[URL_AUTH_MAIN].last_check # NONE
  /\ mirrors[URL_AUTH_MAIN].next_check = EPOCH

\* ------------------------------------------------------------------------
\* The order of a tick (TickSpec)
\* ------------------------------------------------------------------------

\* The positions <<group, mirror>> of the for loops, and their order.
Positions ==
  {p \in (1..Len(mirror_groups)) \X (1..Len(Flatten(mirror_groups))) :
     p[2] <= Len(mirror_groups[p[1]].mirrors)}
UrlAt(p) == mirror_groups[p[1]].mirrors[p[2]].repo_url
Before(p, q) == p[1] < q[1] \/ (p[1] = q[1] /\ p[2] < q[2])

\* The tick does not, or no longer, find the mirror due.
NotDue(ms, u) == ms[u].next_check >= tick_now

\* C29: during a tick now is sampled once.  A check is of the mirror the
\* loops are at, which is due, every mirror before it in list order being
\* no longer due and no other mirror being touched; after its transition
\* the mirror is not due again in the tick; the loops go on to a later
\* mirror of the same group or, with no due mirror left in the group, to
\* its judgment.  A group is judged right after a check of one of its
\* mirrors, with no due mirror left in it or before it, and from the
\* judgment the loops go to a due mirror of a later group or, no mirror
\* being due any more, out of the tick.
C29_TickOrder ==
  [][ /\ pc \in {"check", "judge"} =>
           /\ tick_now = now
           /\ tick_now' = tick_now
           /\ now' = now
      /\ lastC'.called =>
           /\ pc = "check"
           /\ lastC'.repo_url = UrlAt(<<gi, mi>>)
           /\ ~ NotDue(mirrors, UrlAt(<<gi, mi>>))
           /\ \A p \in Positions :
                 Before(p, <<gi, mi>>) => NotDue(mirrors, UrlAt(p))
           /\ \A v \in DOMAIN mirrors \ {UrlAt(<<gi, mi>>)} :
                 mirrors'[v] = mirrors[v]
           /\ lastC'.end \in {"fail", "succeed"} =>
                 /\ mirrors'[UrlAt(<<gi, mi>>)].last_check = now
                 /\ NotDue(mirrors', UrlAt(<<gi, mi>>))
                 /\ pc' \in {"check", "judge"}
           /\ pc' = "check" => gi' = gi /\ mi' > mi
           /\ pc' = "judge" =>
                 /\ gi' = gi
                 /\ \A p \in Positions : p[1] = gi => NotDue(mirrors', UrlAt(p))
      /\ lastJ'.called =>
           /\ pc = "judge"
           /\ lastJ'.domain = mirror_groups[gi].domain
           /\ lastC.called
           /\ \E p \in Positions : p[1] = gi /\ UrlAt(p) = lastC.repo_url
           /\ mirrors' = mirrors
           /\ \A p \in Positions : p[1] <= gi => NotDue(mirrors, UrlAt(p))
           /\ pc' = "check" => gi' > gi
           /\ pc' = "loop" => \A p \in Positions : NotDue(mirrors, UrlAt(p))
      /\ ( pc = "loop" /\ pc' = "loop" /\ tick_now' # tick_now ) =>
           \A p \in Positions : mirrors[UrlAt(p)].next_check >= tick_now' ]_vars

\* The tick is over in which the authority and both mirrors of the mirror
\* domain were due: each has been checked in it, and the domain's group was
\* judged last, on both of its mirrors.
C29_Witness ==
  /\ registry = TopoBoth
  /\ pc = "loop"
  /\ tick_now = StartTime + 1
  /\ \A u \in DOMAIN mirrors : mirrors[u].last_check = tick_now
  /\ lastJ.called
  /\ lastJ.domain = "mirror.example"
  /\ Len(lastJ.explanations) = 2

\* ------------------------------------------------------------------------
\* Every mirror keeps being checked (EpochSpec)
\* ------------------------------------------------------------------------

\* The epoch has just been loaded; no pass of the loop yet.
EpochLoaded == pc = "loop" /\ tick_now = NONE

\* C30: the process goes on from epoch to epoch; a load leaves every mirror
\* due within the bootstrap delay; and when an epoch ends every mirror of
\* the topology has had a transition in it.
C30_EveryMirrorKeepsBeingChecked ==
  /\ pc # "crashed"
  /\ EpochLoaded =>
        \A u \in DOMAIN mirrors : mirrors[u].next_check <= BootstrapLimit(now)
  /\ EpochEnded =>
        \A u \in DOMAIN mirrors : CheckedThisEpoch(u)

\* ------------------------------------------------------------------------
\* The history fields of a Mirror agree with one another (Spec)
\* ------------------------------------------------------------------------

\* The four history fields of a Mirror object fit a sequence of checks:
\* no negative count; a sync time exactly when a successful check; a
\* check behind either of them and behind a failure; a success behind a
\* checked mirror that has no failure.
HistoryConsistent(mirror) ==
  /\ mirror.consecutive_check_failures >= 0
  /\ (mirror.last_sync_time # NONE) <=> (mirror.last_successful_check # NONE)
  /\ ( mirror.last_sync_time # NONE \/ mirror.last_successful_check # NONE )
        => mirror.last_check # NONE
  /\ mirror.consecutive_check_failures > 0 => mirror.last_check # NONE
  /\ ( mirror.consecutive_check_failures = 0 /\ mirror.last_check # NONE )
        => mirror.last_successful_check # NONE

\* The Mirror objects the cache file holds.
CachedMirrors ==
  IF cache.kind = "snapshot" THEN {cache.mirrors[u] : u \in DOMAIN cache.mirrors}
  ELSE {}

\* C31: in a process that starts without a cache, through its epochs and
\* through kills that leave the cache file whole, every Mirror object in
\* memory and every Mirror in the cache file has consistent history
\* fields: consecutive_check_failures >= 0; last_sync_time is present iff
\* last_successful_check is; if either is present, so is last_check; if
\* the count is positive, last_check is present; and if the count is 0
\* and last_check is present, last_successful_check is present.
C31_HistoryIsConsistent ==
  /\ \A u \in DOMAIN mirrors : HistoryConsistent(mirrors[u])
  /\ \A mirror \in CachedMirrors : HistoryConsistent(mirror)

\* A reload has just merged the cache: the main mirror came over with
\* failures behind an earlier success, the authority with a success and no
\* failure.
C31_Witness ==
  /\ pc = "loop"
  /\ tick_now = NONE
  /\ cache.kind = "snapshot"
  /\ mirrors[URL_MIRROR_MAIN].consecutive_check_failures > 0
  /\ mirrors[URL_MIRROR_MAIN].last_successful_check # NONE
  /\ mirrors[URL_MIRROR_MAIN].last_check > mirrors[URL_MIRROR_MAIN].last_successful_check
  /\ mirrors[URL_AUTH_MAIN].consecutive_check_failures = 0
  /\ mirrors[URL_AUTH_MAIN].last_sync_time # NONE

\* ------------------------------------------------------------------------
\* judge_mirror_group on a group of authoritative mirrors (AuthoritySpec)
\* ------------------------------------------------------------------------

\* An authoritative mirror at the judgment: never checked, checked now or
\* around the recency bound; failing or not; with or without a sync time.
JudgedAuthorityStates(entry) ==
  {MirrorWith(entry, cf, lc, lst) :
     cf \in {0, 1, CONSECUTIVE_FAIL_LIMIT + 1},
     lc \in JudgedLastChecks,
     lst \in {NONE, JudgeTime - 1}}

\* The authority's second repo: checked now or too long ago.
JudgedRootStates ==
  {m \in JudgedAuthorityStates(GroupAuthorityBoth.mirrors[2]) :
     /\ m.last_check \in {JudgeTime, JudgeTime - 2 * CHECK_INTERVAL}
     /\ m.consecutive_check_failures \in {0, 1}}

\* The main mirror of the other group: synced, checked now, not due.
SettledMain == MirrorWith(GroupMirrorMain.mirrors[1], 0, JudgeTime, JudgeTime - 1)

\* The Mirror objects by url when the authority's group is judged.
JudgedAuthorities(groups) ==
  IF groups = TopoMain
    THEN {(URL_AUTH_MAIN :> a) @@ (URL_MIRROR_MAIN :> SettledMain) :
            a \in JudgedAuthorityStates(GroupAuthority.mirrors[1])}
    ELSE {(URL_AUTH_MAIN :> a) @@ (URL_AUTH_ROOT :> r) @@ (URL_MIRROR_MAIN :> SettledMain) :
            a \in JudgedAuthorityStates(GroupAuthorityBoth.mirrors[1]),
            r \in JudgedRootStates}

\* The process is about to judge the authority's group; the tracker may
\* hold an open issue for either domain.
AuthorityInit ==
  /\ now = JudgeTime
  /\ pc = "judge"
  /\ log_only \in BOOLEAN
  /\ auto_close \in BOOLEAN
  /\ registry \in AuthorityTopologies
  /\ mirror_groups = registry
  /\ mirrors \in JudgedAuthorities(registry)
  /\ cache = NoCache
  /\ epoch_start = JudgeTime - 1
  /\ monitor_period = MONITOR_PERIOD_S
  /\ tick_now = JudgeTime
  /\ gi = 1
  /\ mi = 1
  /\ restarts = 0
  /\ issues \in [Titles -> 0..1]
  /\ lastJ = NoJudgment
  /\ lastC = NoCheck
  /\ stale_since = [u \in AllUrls |-> NONE]
  /\ fail_run = [u \in AllUrls |->
                   IF u \in DOMAIN mirrors
                     THEN mirrors[u].consecutive_check_failures ELSE 0]

AuthorityNext == JudgeGroup

AuthoritySpec == AuthorityInit /\ [][AuthorityNext]_vars

\* Every mirror of the group is authoritative.
AuthoritiesOnly(group) ==
  \A i \in 1..Len(group.mirrors) : is_authoritative(group.mirrors[i].repo_url)

\* C32: judging a group whose mirrors are all authoritative makes no
\* tracker call at all, with or without an open issue for its domain, in
\* either mode and with auto-close on or off: nothing is searched, created,
\* updated or closed, the tracker is as it was, nobody is judged, and no
\* exception leaves the call.
C32_AuthorityGroupTouchesNoIssue ==
  [][ ( pc = "judge" /\ lastJ'.called /\ AuthoritiesOnly(mirror_groups[gi]) ) =>
        /\ lastJ'.domain = mirror_groups[gi].domain
        /\ lastJ'.explanations = <<>>
        /\ lastJ'.ops = <<>>
        /\ ~ lastJ'.escaped
        /\ issues' = issues ]_vars

\* The authority's group of two repos, both checked now, has passed the
\* recency gate in normal mode with auto-close on, an issue is open for its
\* domain, and the judgment made no tracker call.
C32_Witness ==
  /\ lastJ.called
  /\ lastJ.domain = "packages.termux.dev"
  /\ Len(JudgedGroup.mirrors) = 2
  /\ AuthoritiesOnly(JudgedGroup)
  /\ lastJ.gate
  /\ ~ log_only
  /\ auto_close
  /\ issues[issue_title("packages.termux.dev")] = 1
  /\ lastJ.ops = <<>>

====
